---- MODULE Spec2Model ----
(***************************************************************************)
(* OMG language support: the recursive-descent parser (OMGParser), its AST *)
(* query utilities and the semantic validation passes of the language      *)
(* service (OMGLanguageService), driven by the document events of the      *)
(* extension.                                                              *)
(*                                                                         *)
(* Texts are TLA+ strings; character offsets are 0-based as in the source, *)
(* lines and columns are 1-based.  A parser state is the record of the     *)
(* OMGParser fields position, line, column and errors, plus a flag telling *)
(* that the call stack overflowed (the one exception the parser code can   *)
(* raise).                                                                 *)
(***************************************************************************)
EXTENDS Integers, Sequences, FiniteSets, TLC

VARIABLES
    scheme,       \* the scheme of the document's URI
    files,        \* the file system: the files that exist in the document's
                  \* directory, and whether looking a file up raises
    text,         \* the text of the document in the editor
    version,      \* the version of the document: the number of its changes
    open,         \* whether the document is open in the editor
    documents,    \* the language service's entry for the document's URI
    diagnostics,  \* the diagnostic collection's entry for the document's URI
    answer,       \* the answer to the editor's latest request on the document
    entries       \* the language service's documents map when it serves several
                  \* documents: its (key, value) pairs in the order of insertion

vars == <<scheme, files, text, version, open, documents, diagnostics, answer,
          entries>>

(***************************************************************************)
(* Bounds                                                                  *)
(***************************************************************************)
\* number of change events of one document
MaxEdits == 2

\* number of change events of one document that is typed piece by piece
MaxPieces == 3

\* number of nested parseExpression calls the call stack holds
StackDepth == 2

(***************************************************************************)
(* Character classes of the regular expressions of the source              *)
(***************************************************************************)
Lower == {"a", "b", "c", "d", "e", "f", "g", "h", "i", "j", "k", "l", "m",
          "n", "o", "p", "q", "r", "s", "t", "u", "v", "w", "x", "y", "z"}

Upper == {"A", "B", "C", "D", "E", "F", "G", "H", "I", "J", "K", "L", "M",
          "N", "O", "P", "Q", "R", "S", "T", "U", "V", "W", "X", "Y", "Z"}

Digits == {"0", "1", "2", "3", "4", "5", "6", "7", "8", "9"}

Letters == Lower \cup Upper

\* [a-zA-Z0-9_]
IdentChars == Letters \cup Digits \cup {"_"}

\* [a-zA-Z0-9_-]
WordChars == IdentChars \cup {"-"}

\* \s
WhiteSpace == {" ", "\t", "\n", "\r", "\f"}

\* [dDsSwWbB\\\]\[-]
EscapeChars == {"d", "D", "s", "S", "w", "W", "b", "B", "\\", "]", "[", "-"}

\* the value of peek() at the end of the text (null) and of charAt() there ('')
EOF == ""

(***************************************************************************)
(* Strings                                                                 *)
(***************************************************************************)
charAt(t, i) == IF i >= 0 /\ i < Len(t) THEN SubSeq(t, i + 1, i + 1) ELSE ""

slice(t, from, to) ==
    IF from >= Len(t) \/ to <= from THEN ""
    ELSE SubSeq(t, from + 1, IF to > Len(t) THEN Len(t) ELSE to)

(***************************************************************************)
(* AST nodes, parse errors and results                                     *)
(***************************************************************************)
Node(type, value, children, start, length) ==
    [type |-> type, value |-> value, children |-> children,
     line |-> start.line, column |-> start.column, length |-> length]

\* the null of "ASTNode | null"
NoNode == [type |-> "null", value |-> "", children |-> <<>>,
           line |-> 0, column |-> 0, length |-> 0]

IsNull(n) == n.type = "null"


\* a parse function's outcome: the parser state after it and the node (or null)
R(n, s) == [s |-> s, n |-> n]

\* a scanner function's outcome: the boolean and the parser state after it
B(ok, s) == [ok |-> ok, s |-> s]

\* a loop's outcome: the parser state after it and the collected nodes
L(c, s) == [s |-> s, c |-> c]

\* const r = <call>; followed by the statements K that use r
Then(r, K(_)) == K(r)

\* a parser constructed with the error list the parse before it left, the
\* one the service's entry holds as diagnostics, instead of an empty one
NewParser_KeepsErrors ==
    [position |-> 0, line |-> 1, column |-> 1,
     errors |-> [i \in 1..Len(documents.errors) |->
                    [message |-> documents.errors[i].message,
                     line |-> documents.errors[i].range.startLine + 1,
                     column |-> documents.errors[i].range.startCharacter + 1,
                     length |-> documents.errors[i].range.endCharacter
                                - documents.errors[i].range.startCharacter]],
     thrown |-> FALSE]

NewParser ==
    [position |-> 0, line |-> 1, column |-> 1, errors |-> <<>>, thrown |-> FALSE]

\* the least of a set of numbers, none when the set is empty
Least(offsets, none) ==
    IF offsets = {} THEN none
    ELSE CHOOSE i \in offsets : \A j \in offsets : i <= j

\* the greatest of a set of numbers, none when the set is empty
Greatest(offsets, none) ==
    IF offsets = {} THEN none
    ELSE CHOOSE i \in offsets : \A j \in offsets : i >= j

(***************************************************************************)
(* Scanner.  Once the call stack has overflowed the exception unwinds the  *)
(* parser: nothing more is read or written, which the scanner models by    *)
(* reading EOF everywhere and leaving the state alone.                     *)
(***************************************************************************)
\* text.charAt(position + i)
At(t, s, i) == IF s.thrown THEN "" ELSE charAt(t, s.position + i)

peek(t, s) == At(t, s, 0)

\* advance() that counts a line break as a column
advance_KeepsColumn(t, s) ==
    IF peek(t, s) = EOF THEN s
    ELSE IF peek(t, s) = "\n"
         THEN [s EXCEPT !.position = @ + 1, !.line = @ + 1, !.column = @ + 1]
         ELSE [s EXCEPT !.position = @ + 1, !.column = @ + 1]

advance(t, s) ==
    IF peek(t, s) = EOF THEN s
    ELSE IF peek(t, s) = "\n"
         THEN [s EXCEPT !.position = @ + 1, !.line = @ + 1, !.column = 1]
         ELSE [s EXCEPT !.position = @ + 1, !.column = @ + 1]

\* the line breaks among the next n characters, as offsets from the position
BreaksIn(t, s, n) == { i \in 0..(n - 1) : At(t, s, i) = "\n" }

\* n calls of advance(): the position moves over the characters that are
\* left, the line by the line breaks among them, and the column counts from
\* the last of these
advanceN(t, s, n) ==
    IF peek(t, s) = EOF \/ n <= 0 THEN s
    ELSE [s EXCEPT
            !.position = IF @ + n > Len(t) THEN Len(t) ELSE @ + n,
            !.line = @ + Cardinality(BreaksIn(t, s, n)),
            !.column = IF BreaksIn(t, s, n) = {}
                       THEN @ + (IF s.position + n > Len(t)
                                 THEN Len(t) - s.position ELSE n)
                       ELSE (IF s.position + n > Len(t)
                             THEN Len(t) - s.position ELSE n)
                            - Greatest(BreaksIn(t, s, n), 0)]

consume(t, s, expected) ==
    IF peek(t, s) = expected THEN B(TRUE, advance(t, s)) ELSE B(FALSE, s)

consumeString(t, s, expected) ==
    IF ~s.thrown /\ slice(t, s.position, s.position + Len(expected)) = expected
    THEN B(TRUE, advanceN(t, s, Len(expected)))
    ELSE B(FALSE, s)

\* the length of the longest run of characters of set cs from offset i on:
\* the first offset from i on whose character is none of cs, less i
RunLen(t, s, i, cs) ==
    (CHOOSE j \in i..(i + Len(t)) :
        /\ At(t, s, j) \notin cs
        /\ \A k \in i..(j - 1) : At(t, s, k) \in cs) - i

\* text.slice(position).match(/^[a-zA-Z0-9_-]+/), "" for no match
peekWord(t, s) ==
    slice(t, s.position, s.position + RunLen(t, s, 0, WordChars))

\* consumeWord matching the word as a prefix of the text at the position
consumeWord_AcceptsPrefix(t, s, expected) ==
    IF ~s.thrown /\ slice(t, s.position, s.position + Len(expected)) = expected
    THEN B(TRUE, advanceN(t, s, Len(expected)))
    ELSE B(FALSE, s)

consumeWord(t, s, expected) ==
    IF peekWord(t, s) # "" /\ peekWord(t, s) = expected
    THEN B(TRUE, advanceN(t, s, Len(expected)))
    ELSE B(FALSE, s)

\* advance() over the run of white space at the position
skipWhitespace(t, s) == advanceN(t, s, RunLen(t, s, 0, WhiteSpace))

isLetter(c) == c \in Letters

getCurrentPosition(s) == [line |-> s.line, column |-> s.column]

\* the offsets of the line breaks of a text
NewLines(t) == { i \in 0..(Len(t) - 1) : charAt(t, i) = "\n" }

\* the while loop of getPositionFromLineColumn from offset pos at the start of
\* line currentLine: it runs over whole lines while currentLine < line, then
\* over column - 1 characters, leaving at the end of the text and after the
\* line break that ends the line
RECURSIVE PositionLoop(_, _, _, _, _)
PositionLoop(t, line, column, pos, currentLine) ==
    IF pos >= Len(t) \/ currentLine > line THEN pos
    ELSE IF currentLine < line
    THEN PositionLoop(t, line, column,
                      Least({ i \in NewLines(t) : i >= pos }, Len(t) - 1) + 1,
                      currentLine + 1)
    ELSE IF column <= 1 THEN pos
    ELSE Least({pos + column - 1, Len(t)}
                   \cup { i + 1 : i \in { j \in NewLines(t) : j >= pos } }, pos)

getPositionFromLineColumn(t, line, column) ==
    PositionLoop(t, line, column, 0, 1)

\* this.position - this.getPositionFromLineColumn(startPos.line, startPos.column)
SpanLength(t, s, start) ==
    s.position - getPositionFromLineColumn(t, start.line, start.column)

addError(s, message) ==
    IF s.thrown THEN s
    ELSE [s EXCEPT !.errors = Append(@, [message |-> message, line |-> s.line,
                                         column |-> s.column, length |-> 1])]

\* a regular-expression token of n characters was read: position and column
\* move by n, the line stays
matched(s, n) == [s EXCEPT !.position = @ + n, !.column = @ + n]

(***************************************************************************)
(* Token parsers                                                           *)
(***************************************************************************)
\* /^[0-9]+\.[0-9]+/
parseVersionLiteral(t, s) ==
    LET n1 == RunLen(t, s, 0, Digits)
        n2 == RunLen(t, s, n1 + 1, Digits)
        len == n1 + 1 + n2
    IN  IF n1 > 0 /\ At(t, s, n1) = "." /\ n2 > 0
        THEN R(Node("version_literal", slice(t, s.position, s.position + len),
                    <<>>, getCurrentPosition(s), len), matched(s, len))
        ELSE R(NoNode, s)

\* the backslashes that stand in a row right before offset j from the
\* position, counted from the position on
BackslashRun(t, s, j) ==
    j - 1 - Greatest({ k \in 0..(j - 1) : At(t, s, k) # "\\" }, -1)

\* the body of a string literal: the loop reads pairs of a backslash and the
\* character it escapes and single characters, up to the first quote that no
\* backslash escapes or to the end of the text; value collects the raw
\* characters, but a backslash that ends the text
StringLoop(t, s, value) ==
    IF s.thrown THEN [value |-> value, s |-> s]
    ELSE LET left == Len(t) - s.position
             n == Least({ j \in 0..(left - 1) :
                            /\ At(t, s, j) = "\""
                            /\ BackslashRun(t, s, j) % 2 = 0 }, left)
             kept == IF n = left /\ n > 0 /\ BackslashRun(t, s, n) % 2 = 1
                     THEN n - 1 ELSE n
         IN  [value |-> value \o slice(t, s.position, s.position + kept),
              s |-> advanceN(t, s, n)]

parseString(t, s) ==
    LET start == getCurrentPosition(s)
        q1 == consume(t, s, "\"")
    IN  Then(IF q1.ok THEN StringLoop(t, q1.s, "")
             ELSE [value |-> "", s |-> s], LAMBDA body :
        LET q2 == consume(t, body.s, "\"")
        IN  IF ~q1.ok THEN R(NoNode, s)
            ELSE IF q2.ok
                 THEN R(Node("string", "\"" \o body.value \o "\"", <<>>, start,
                             SpanLength(t, q2.s, start)), q2.s)
                 ELSE R(NoNode, q2.s))

\* /^[a-zA-Z0-9_]+\.?[a-zA-Z0-9_]*/
IdentifierLength(t, s) ==
    LET n1 == RunLen(t, s, 0, IdentChars)
    IN  IF n1 = 0 THEN 0
        ELSE IF At(t, s, n1) = "." THEN n1 + 1 + RunLen(t, s, n1 + 1, IdentChars)
             ELSE n1

parseIdentifier(t, s) ==
    LET len == IdentifierLength(t, s)
    IN  IF len > 0
        THEN R(Node("identifier", slice(t, s.position, s.position + len),
                    <<>>, getCurrentPosition(s), len), matched(s, len))
        ELSE R(NoNode, s)

\* parseInt(digits, 10), kept as its decimal numeral: leading zeros go
RECURSIVE parseInt(_)
parseInt(digits) ==
    IF Len(digits) > 1 /\ charAt(digits, 0) = "0"
    THEN parseInt(slice(digits, 1, Len(digits)))
    ELSE digits

\* /^\d+/
parseNumber(t, s) ==
    LET len == RunLen(t, s, 0, Digits)
    IN  IF len > 0
        THEN R(Node("number", parseInt(slice(t, s.position, s.position + len)),
                    <<>>, getCurrentPosition(s), len), matched(s, len))
        ELSE R(NoNode, s)

\* /^\\[dDsSwWbB\\\]\[-]/
parseEscape(t, s) ==
    IF At(t, s, 0) = "\\" /\ At(t, s, 1) \in EscapeChars
    THEN R(Node("escape", slice(t, s.position, s.position + 2), <<>>,
                getCurrentPosition(s), 2), matched(s, 2))
    ELSE R(NoNode, s)

parseAnchor(t, s) ==
    LET c1 == consume(t, s, "^")
        c2 == consume(t, c1.s, "$")
        s2 == IF c1.ok THEN c1.s ELSE c2.s
    IN  IF c1.ok \/ c2.ok
        THEN R(Node("anchor", charAt(t, s2.position - 1), <<>>,
                    getCurrentPosition(s), 1), s2)
        ELSE R(NoNode, s)

\* parseDot leaving the cursor on the dot it has matched
parseDot_NoAdvance(t, s) ==
    LET c == consume(t, s, ".")
    IN  IF c.ok THEN R(Node("dot", "", <<>>, getCurrentPosition(s), 1), s)
        ELSE R(NoNode, s)

parseDot(t, s) ==
    LET c == consume(t, s, ".")
    IN  IF c.ok THEN R(Node("dot", "", <<>>, getCurrentPosition(s), 1), c.s)
        ELSE R(NoNode, s)

parseCharClassItem(t, s) ==
    LET start == getCurrentPosition(s)
        char == peek(t, s)
    IN  Then(parseEscape(t, s), LAMBDA escape :
            IF isLetter(peek(t, s)) /\ At(t, s, 1) = "-" /\ isLetter(At(t, s, 2))
            THEN R(Node("char_range", peek(t, s) \o "-" \o At(t, s, 2), <<>>,
                        start, 3), advanceN(t, s, 3))
            ELSE IF ~IsNull(escape.n) THEN escape
            ELSE IF char # EOF /\ char # "]" /\ char # "\\"
                 THEN R(Node("char", char, <<>>, start, 1), advance(t, s))
                 ELSE R(NoNode, s))

RECURSIVE CharClassLoop(_, _, _)
CharClassLoop(t, s, items) ==
    IF peek(t, s) # EOF /\ peek(t, s) # "]"
    THEN Then(parseCharClassItem(t, s), LAMBDA item :
             IF ~IsNull(item.n)
             THEN CharClassLoop(t, item.s, Append(items, item.n))
             ELSE CharClassLoop(t, advance(t, s), items))
    ELSE L(items, s)

parseCharClass(t, s) ==
    LET start == getCurrentPosition(s)
        open1 == consume(t, s, "[")
    IN  Then(CharClassLoop(t, open1.s, <<>>), LAMBDA body :
        LET close1 == consume(t, body.s, "]")
        IN  IF ~open1.ok THEN R(NoNode, s)
            ELSE IF close1.ok
                 THEN R(Node("charclass", "", body.c, start,
                             SpanLength(t, close1.s, start)), close1.s)
                 ELSE R(NoNode, close1.s))


(***************************************************************************)
(* Expressions.  The parameter d of the functions that lead back to        *)
(* parseExpression is the number of parseExpression calls on the call      *)
(* stack.                                                                  *)
(***************************************************************************)
RECURSIVE parseExpression(_, _, _)

parseFilterExpression(t, s) ==
    LET start == getCurrentPosition(s)
    IN  Then(parseIdentifier(t, s), LAMBDA identifier :
        LET open1 == consume(t, skipWhitespace(t, identifier.s), "(")
        IN  Then(parseString(t, skipWhitespace(t, open1.s)), LAMBDA string :
            LET close1 == consume(t, string.s, ")")
            IN  IF IsNull(identifier.n) THEN R(NoNode, identifier.s)
                ELSE IF ~open1.ok THEN R(NoNode, open1.s)
                ELSE IF IsNull(string.n)
                     THEN R(NoNode, addError(string.s, "Expected string in filter expression"))
                ELSE IF ~close1.ok
                     THEN R(NoNode, addError(close1.s,
                                "Expected closing parenthesis in filter expression"))
                ELSE R(Node("filter_expr", "", <<identifier.n, string.n>>, start,
                            SpanLength(t, close1.s, start)), close1.s)))

parseListMatch(t, s) ==
    LET start == getCurrentPosition(s)
        open1 == consumeString(t, s, "[[")
    IN  Then(parseIdentifier(t, skipWhitespace(t, open1.s)), LAMBDA identifier :
        LET colon == consume(t, skipWhitespace(t, identifier.s), ":")
        IN  Then(IF colon.ok
                 THEN parseFilterExpression(t, skipWhitespace(t, colon.s))
                 ELSE R(NoNode, colon.s), LAMBDA filterExpr :
            LET children == IF IsNull(filterExpr.n) THEN <<identifier.n>>
                            ELSE <<identifier.n, filterExpr.n>>
                close1 == consumeString(t, skipWhitespace(t, filterExpr.s), "]]")
            IN  IF ~open1.ok THEN R(NoNode, s)
                ELSE IF IsNull(identifier.n)
                     THEN R(NoNode, addError(identifier.s, "Expected identifier in list match"))
                ELSE IF ~close1.ok
                     THEN R(NoNode, addError(close1.s, "Expected \"]]\" to close list match"))
                ELSE R(Node("list_match", "", children, start,
                            SpanLength(t, close1.s, start)), close1.s)))

\* escape || anchor || dot || charclass || string || identifier
parseRegexAtom(t, s) ==
    Then(parseEscape(t, s), LAMBDA escape :
    Then(parseAnchor(t, escape.s), LAMBDA anchor :
    Then(parseDot(t, anchor.s), LAMBDA dot :
    Then(parseCharClass(t, dot.s), LAMBDA charClass :
    Then(parseString(t, charClass.s), LAMBDA string :
        IF ~IsNull(escape.n) THEN escape
        ELSE IF ~IsNull(anchor.n) THEN anchor
        ELSE IF ~IsNull(dot.n) THEN dot
        ELSE IF ~IsNull(charClass.n) THEN charClass
        ELSE IF ~IsNull(string.n) THEN string
        ELSE parseIdentifier(t, string.s))))))

\* parseGroupExpression returning the group it has, after the error, when the
\* closing parenthesis is missing
parseGroupExpression_KeepsPartial(t, s, d) ==
    IF ~consume(t, s, "(").ok THEN R(NoNode, s)
    ELSE Then(parseExpression(t, skipWhitespace(t, consume(t, s, "(").s), d),
              LAMBDA expr :
        IF expr.n = NoNode
        THEN R(NoNode, addError(expr.s, "Expected expression in group"))
        ELSE LET close1 == consume(t, skipWhitespace(t, expr.s), ")")
                 after == IF close1.ok THEN close1.s
                          ELSE addError(close1.s, "Expected closing parenthesis")
             IN  R(Node("group_expr", "", <<expr.n>>, getCurrentPosition(s),
                        SpanLength(t, after, s)), after))

parseGroupExpression(t, s, d) ==
    IF ~consume(t, s, "(").ok THEN R(NoNode, s)
    ELSE Then(parseExpression(t, skipWhitespace(t, consume(t, s, "(").s), d),
              LAMBDA expr :
        IF expr.n = NoNode
        THEN R(NoNode, addError(expr.s, "Expected expression in group"))
        ELSE LET close1 == consume(t, skipWhitespace(t, expr.s), ")")
             IN  IF ~close1.ok
                 THEN R(NoNode, addError(close1.s, "Expected closing parenthesis"))
                 ELSE R(Node("group_expr", "", <<expr.n>>, getCurrentPosition(s),
                             SpanLength(t, close1.s, s)), close1.s))

parseNamedCapture(t, s, d) ==
    LET open1 == consumeString(t, s, "(?P<")
        identifier == parseIdentifier(t, open1.s)
        gt == consume(t, identifier.s, ">")
    IN  IF ~open1.ok THEN R(NoNode, s)
        ELSE IF identifier.n = NoNode
             THEN R(NoNode, addError(identifier.s, "Expected identifier in named capture"))
        ELSE IF ~gt.ok
             THEN R(NoNode, addError(gt.s, "Expected \">\" after named capture identifier"))
        ELSE Then(parseExpression(t, skipWhitespace(t, gt.s), d), LAMBDA expr :
            IF expr.n = NoNode
            THEN R(NoNode, addError(expr.s, "Expected expression in named capture"))
            ELSE IF ~consume(t, expr.s, ")").ok
                 THEN R(NoNode, addError(expr.s,
                            "Expected closing parenthesis in named capture"))
            ELSE R(Node("named_capture", "", <<identifier.n, expr.n>>,
                        getCurrentPosition(s),
                        SpanLength(t, consume(t, expr.s, ")").s, s)),
                   consume(t, expr.s, ")").s))

\* group || named capture || list match || regex atom, each tried from the
\* state the failed one before it left
parsePrimaryExpression(t, s, d) ==
    Then(parseGroupExpression(t, skipWhitespace(t, s), d), LAMBDA group :
        IF group.n # NoNode THEN group
        ELSE Then(parseNamedCapture(t, group.s, d), LAMBDA capture :
            IF capture.n # NoNode THEN capture
            ELSE LET listMatch == parseListMatch(t, capture.s)
                 IN  IF listMatch.n # NoNode THEN listMatch
                     ELSE parseRegexAtom(t, listMatch.s)))

\* parseQuantifier accepting {n,} as a range with one child
parseQuantifier_AcceptsOpenEnded(t, s) ==
    LET start == getCurrentPosition(s)
        qmark == consume(t, s, "?")
        open1 == consume(t, s, "{")
    IN  Then(parseNumber(t, open1.s), LAMBDA min :
        LET comma == consume(t, min.s, ",")
        IN  Then(parseNumber(t, comma.s), LAMBDA max :
            LET closeRange == consume(t, max.s, "}")
                closeExact == consume(t, min.s, "}")
            IN  IF qmark.ok THEN R(Node("qmark", "", <<>>, start, 1), qmark.s)
                ELSE IF ~open1.ok THEN R(NoNode, s)
                ELSE IF IsNull(min.n)
                     THEN R(NoNode, addError(min.s, "Expected number in quantifier"))
                ELSE IF comma.ok
                     THEN IF closeRange.ok
                          THEN R(Node("range", "",
                                      IF IsNull(max.n) THEN <<min.n>> ELSE <<min.n, max.n>>,
                                      start, SpanLength(t, closeRange.s, start)),
                                 closeRange.s)
                          ELSE R(NoNode, addError(closeRange.s,
                                     "Expected \"}\" to close range quantifier"))
                ELSE IF closeExact.ok
                     THEN R(Node("exact_range", "", <<min.n>>, start,
                                 SpanLength(t, closeExact.s, start)), closeExact.s)
                     ELSE R(NoNode, addError(closeExact.s,
                                "Expected \"}\" to close exact quantifier"))))

parseQuantifier(t, s) ==
    LET start == getCurrentPosition(s)
        qmark == consume(t, s, "?")
        open1 == consume(t, s, "{")
    IN  Then(parseNumber(t, open1.s), LAMBDA min :
        LET comma == consume(t, min.s, ",")
        IN  Then(parseNumber(t, comma.s), LAMBDA max :
            LET closeRange == consume(t, max.s, "}")
                closeExact == consume(t, min.s, "}")
            IN  IF qmark.ok THEN R(Node("qmark", "", <<>>, start, 1), qmark.s)
                ELSE IF ~open1.ok THEN R(NoNode, s)
                ELSE IF IsNull(min.n)
                     THEN R(NoNode, addError(min.s, "Expected number in quantifier"))
                ELSE IF comma.ok
                     THEN IF ~IsNull(max.n)
                          THEN IF closeRange.ok
                               THEN R(Node("range", "", <<min.n, max.n>>, start,
                                           SpanLength(t, closeRange.s, start)), closeRange.s)
                               ELSE R(NoNode, addError(closeRange.s,
                                          "Expected \"}\" to close range quantifier"))
                          ELSE R(NoNode, addError(max.s,
                                     "Open-ended quantifiers not allowed in OMG"))
                ELSE IF closeExact.ok
                     THEN R(Node("exact_range", "", <<min.n>>, start,
                                 SpanLength(t, closeExact.s, start)), closeExact.s)
                     ELSE R(NoNode, addError(closeExact.s,
                                "Expected \"}\" to close exact quantifier"))))

parseQuantifiedExpression(t, s, d) ==
    Then(parsePrimaryExpression(t, s, d), LAMBDA primary :
        IF primary.n = NoNode THEN R(NoNode, primary.s)
        ELSE LET quantifier == parseQuantifier(t, skipWhitespace(t, primary.s))
             IN  IF quantifier.n = NoNode THEN R(primary.n, quantifier.s)
                 ELSE R(Node("quantified", "", <<primary.n, quantifier.n>>,
                             getCurrentPosition(s),
                             SpanLength(t, quantifier.s, s)), quantifier.s))

\* the while (true) loop of parseConcatenation from state s on and, after
\* its break, the statements that return: start is the function's startPos
RECURSIVE ConcatenationLoop(_, _, _, _, _)
ConcatenationLoop(t, start, s, d, elements) ==
    Then(parseQuantifiedExpression(t, skipWhitespace(t, s), d), LAMBDA element :
        IF element.n # NoNode
        THEN ConcatenationLoop(t, start, element.s, d, Append(elements, element.n))
        ELSE IF Len(elements) = 0 THEN R(NoNode, element.s)
        ELSE IF Len(elements) = 1 THEN R(elements[1], element.s)
        ELSE R(Node("concat", "", elements, start,
                    SpanLength(t, element.s, start)), element.s))

\* parseConcatenation reporting the character it stops at
parseConcatenation_ReportsStop(t, s, d) ==
    Then(ConcatenationLoop(t, getCurrentPosition(s), s, d, <<>>), LAMBDA concat :
        IF ~IsNull(concat.n) /\ peek(t, concat.s) \in {"+", "*"}
        THEN R(concat.n, addError(concat.s, "Unexpected character"))
        ELSE concat)

parseConcatenation(t, s, d) ==
    ConcatenationLoop(t, getCurrentPosition(s), s, d, <<>>)

\* the while loop of parseAlternation from state s on and, after it, the
\* statements that return: start is the function's startPos
RECURSIVE AlternationLoop(_, _, _, _, _)
AlternationLoop(t, start, s, d, alternatives) ==
    IF peek(t, s) = "|"
    THEN Then(parseConcatenation(t, skipWhitespace(t, consume(t, s, "|").s), d),
              LAMBDA right :
             IF right.n # NoNode
             THEN AlternationLoop(t, start, right.s, d, Append(alternatives, right.n))
             ELSE AlternationLoop(t, start, right.s, d, alternatives))
    ELSE IF Len(alternatives) = 1 THEN R(alternatives[1], s)
    ELSE R(Node("alt", "", alternatives, start, SpanLength(t, s, start)), s)

\* parseAlternation returning an alt node whenever a "|" was read
parseAlternation_WrapsSingle(t, s, d) ==
    Then(parseConcatenation(t, s, d), LAMBDA left :
        IF left.n = NoNode THEN R(NoNode, left.s)
        ELSE Then(AlternationLoop(t, getCurrentPosition(s), left.s, d, <<left.n>>),
                  LAMBDA alt :
            IF peek(t, left.s) = "|" /\ alt.n = left.n
            THEN R(Node("alt", "", <<left.n>>, getCurrentPosition(s),
                        SpanLength(t, alt.s, getCurrentPosition(s))), alt.s)
            ELSE alt))

parseAlternation(t, s, d) ==
    Then(parseConcatenation(t, s, d), LAMBDA left :
        IF left.n = NoNode THEN R(NoNode, left.s)
        ELSE AlternationLoop(t, getCurrentPosition(s), left.s, d, <<left.n>>))

\* the call stack holds StackDepth nested parseExpression calls: one more
\* overflows it, and the exception unwinds to parse()
parseExpression(t, s, d) ==
    IF s.thrown \/ d >= StackDepth THEN R(NoNode, [s EXCEPT !.thrown = TRUE])
    ELSE parseAlternation(t, s, d + 1)


(***************************************************************************)
(* Import options and the uses clause                                      *)
(***************************************************************************)
ImportFlagNames ==
    <<"ignore-case", "ignore-punctuation", "elide-whitespace", "word-boundary",
      "word-prefix", "word-suffix", "line-start", "line-end">>

RECURSIVE ImportFlagFrom(_, _, _)
ImportFlagFrom(t, s, i) ==
    IF i > Len(ImportFlagNames) THEN R(NoNode, s)
    ELSE IF consumeWord(t, s, ImportFlagNames[i]).ok
         THEN R(Node("import_flag", ImportFlagNames[i], <<>>,
                     getCurrentPosition(s), Len(ImportFlagNames[i])),
                consumeWord(t, s, ImportFlagNames[i]).s)
         ELSE ImportFlagFrom(t, s, i + 1)

parseImportFlag(t, s) == ImportFlagFrom(t, s, 1)

RECURSIVE ImportOptionsLoop(_, _, _)
ImportOptionsLoop(t, s, flags) ==
    LET comma == consume(t, s, ",")
    IN  Then(parseImportFlag(t, skipWhitespace(t, comma.s)), LAMBDA nextFlag :
            IF comma.ok
            THEN ImportOptionsLoop(t, nextFlag.s,
                     IF IsNull(nextFlag.n) THEN flags ELSE Append(flags, nextFlag.n))
            ELSE L(flags, s))

parseImportOptions(t, s) ==
    LET start == getCurrentPosition(s)
    IN  Then(parseImportFlag(t, s), LAMBDA flag :
        Then(ImportOptionsLoop(t, flag.s,
                 IF IsNull(flag.n) THEN <<>> ELSE <<flag.n>>), LAMBDA loop :
            IF Len(loop.c) = 0 THEN R(NoNode, loop.s)
            ELSE R(Node("import_opts", "", loop.c, start,
                        SpanLength(t, loop.s, start)), loop.s)))

parseResolverScope(t, s) ==
    LET start == getCurrentPosition(s)
        default == consumeWord(t, s, "default")
        after == consumeWord(t, skipWhitespace(t, default.s), "resolver")
        resolver == consumeWord(t, s, "resolver")
    IN  IF default.ok
        THEN IF after.ok
             THEN R(Node("resolver_scope", "default resolver", <<>>, start,
                         SpanLength(t, after.s, start)), after.s)
             ELSE R(NoNode, after.s)
        ELSE IF resolver.ok
             THEN R(Node("resolver_scope", "resolver", <<>>, start, 8), resolver.s)
             ELSE R(NoNode, s)

parseResolverArg(t, s) ==
    LET start == getCurrentPosition(s)
    IN  Then(parseIdentifier(t, s), LAMBDA identifier :
        LET eq == consume(t, skipWhitespace(t, identifier.s), "=")
        IN  Then(IF eq.ok THEN parseString(t, skipWhitespace(t, eq.s))
                 ELSE R(NoNode, eq.s), LAMBDA named :
            \* reset position if identifier = string failed
            LET reset == IF named.s.thrown THEN named.s
                         ELSE [named.s EXCEPT
                                 !.position = getPositionFromLineColumn(t, start.line,
                                                                        start.column),
                                 !.line = start.line,
                                 !.column = start.column]
            IN  Then(parseString(t, IF IsNull(identifier.n) THEN s ELSE reset), LAMBDA string :
                    IF ~IsNull(identifier.n) /\ ~IsNull(named.n)
                    THEN R(Node("resolver_arg", "", <<identifier.n, named.n>>, start,
                                SpanLength(t, named.s, start)), named.s)
                    ELSE IF ~IsNull(string.n)
                         THEN R(Node("resolver_arg", "", <<string.n>>, start,
                                     SpanLength(t, string.s, start)), string.s)
                         ELSE R(NoNode, string.s))))

RECURSIVE ResolverArgLoop(_, _, _)
ResolverArgLoop(t, s, args) ==
    LET comma == consume(t, s, ",")
    IN  Then(parseResolverArg(t, skipWhitespace(t, comma.s)), LAMBDA nextArg :
            IF comma.ok
            THEN ResolverArgLoop(t, nextArg.s,
                     IF IsNull(nextArg.n) THEN args ELSE Append(args, nextArg.n))
            ELSE L(args, s))

parseResolverArgList(t, s) ==
    LET start == getCurrentPosition(s)
    IN  Then(parseResolverArg(t, s), LAMBDA arg :
        Then(ResolverArgLoop(t, arg.s, IF IsNull(arg.n) THEN <<>> ELSE <<arg.n>>), LAMBDA loop :
            IF Len(loop.c) = 0 THEN R(NoNode, loop.s)
            ELSE R(Node("resolver_arg_list", "", loop.c, start,
                        SpanLength(t, loop.s, start)), loop.s)))

parseResolverMethod(t, s) ==
    LET start == getCurrentPosition(s)
    IN  Then(parseIdentifier(t, s), LAMBDA identifier :
        LET open1 == consume(t, skipWhitespace(t, identifier.s), "(")
        IN  Then(parseResolverArgList(t, skipWhitespace(t, open1.s)), LAMBDA args :
            LET close1 == consume(t, args.s, ")")
                after == IF ~open1.ok THEN open1.s
                         ELSE IF close1.ok THEN close1.s
                         ELSE addError(close1.s,
                                  "Expected closing parenthesis for resolver method")
                children == IF open1.ok /\ ~IsNull(args.n) THEN <<identifier.n, args.n>>
                            ELSE <<identifier.n>>
            IN  IF IsNull(identifier.n) THEN R(NoNode, identifier.s)
                ELSE R(Node("resolver_method", "", children, start,
                            SpanLength(t, after, start)), after)))

RECURSIVE OptionalTokensLoop(_, _, _)
OptionalTokensLoop(t, s, tokens) ==
    LET comma == consume(t, s, ",")
    IN  Then(parseString(t, skipWhitespace(t, comma.s)), LAMBDA nextToken :
            IF comma.ok
            THEN OptionalTokensLoop(t, nextToken.s,
                     IF IsNull(nextToken.n) THEN tokens ELSE Append(tokens, nextToken.n))
            ELSE L(tokens, s))

parseResolverFlag(t, s) ==
    LET start == getCurrentPosition(s)
        ignoreCase == consumeWord(t, s, "ignore-case")
        ignorePunctuation == consumeWord(t, s, "ignore-punctuation")
        optionalTokens == consumeWord(t, s, "optional-tokens")
        open1 == consume(t, skipWhitespace(t, optionalTokens.s), "(")
    IN  Then(parseString(t, skipWhitespace(t, open1.s)), LAMBDA token :
        Then(OptionalTokensLoop(t, token.s,
                 IF IsNull(token.n) THEN <<>> ELSE <<token.n>>), LAMBDA loop :
        LET close1 == consume(t, loop.s, ")")
        IN  IF ignoreCase.ok
            THEN R(Node("resolver_flag", "ignore-case", <<>>, start, 11), ignoreCase.s)
            ELSE IF ignorePunctuation.ok
            THEN R(Node("resolver_flag", "ignore-punctuation", <<>>, start, 18),
                   ignorePunctuation.s)
            ELSE IF ~optionalTokens.ok THEN R(NoNode, s)
            ELSE IF ~open1.ok THEN R(NoNode, open1.s)
            ELSE IF close1.ok
                 THEN R(Node("optional_tokens_clause", "", loop.c, start,
                             SpanLength(t, close1.s, start)), close1.s)
                 ELSE R(NoNode, close1.s)))

RECURSIVE ResolverWithLoop(_, _, _)
ResolverWithLoop(t, s, flags) ==
    LET comma == consume(t, s, ",")
    IN  Then(parseResolverFlag(t, skipWhitespace(t, comma.s)), LAMBDA nextFlag :
            IF comma.ok
            THEN ResolverWithLoop(t, nextFlag.s,
                     IF IsNull(nextFlag.n) THEN flags ELSE Append(flags, nextFlag.n))
            ELSE L(flags, s))

parseResolverWith(t, s) ==
    LET start == getCurrentPosition(s)
    IN  Then(parseResolverFlag(t, s), LAMBDA flag :
        Then(ResolverWithLoop(t, flag.s,
                 IF IsNull(flag.n) THEN <<>> ELSE <<flag.n>>), LAMBDA loop :
            IF Len(loop.c) = 0 THEN R(NoNode, loop.s)
            ELSE R(Node("resolver_with", "", loop.c, start,
                        SpanLength(t, loop.s, start)), loop.s)))

parseUsesClause(t, s) ==
    LET start == getCurrentPosition(s)
    IN  Then(IF peekWord(t, s) = "resolver" \/ peekWord(t, s) = "default"
             THEN parseResolverScope(t, s)
             ELSE R(NoNode, s), LAMBDA scope :
        Then(parseResolverMethod(t, scope.s), LAMBDA method :
        Then(IF peekWord(t, method.s) = "with"
             THEN parseResolverWith(t,
                      skipWhitespace(t, consumeWord(t, method.s, "with").s))
             ELSE R(NoNode, method.s), LAMBDA withClause :
        LET children == (IF IsNull(scope.n) THEN <<>> ELSE <<scope.n>>)
                        \o (IF IsNull(method.n) THEN <<>> ELSE <<method.n>>)
                        \o (IF IsNull(withClause.n) THEN <<>> ELSE <<withClause.n>>)
        IN  IF Len(children) = 0 THEN R(NoNode, withClause.s)
            ELSE R(Node("uses_clause", "", children, start,
                        SpanLength(t, withClause.s, start)), withClause.s))))

(***************************************************************************)
(* Statements                                                              *)
(***************************************************************************)
parseVersionStatement(t, s) ==
    LET start == getCurrentPosition(s)
        keyword == consumeWord(t, s, "version")
    IN  Then(parseVersionLiteral(t, skipWhitespace(t, keyword.s)), LAMBDA versionLiteral :
            IF ~keyword.ok THEN R(NoNode, s)
            ELSE IF IsNull(versionLiteral.n)
                 THEN R(NoNode, addError(versionLiteral.s,
                            "Expected version literal after \"version\""))
            ELSE R(Node("version_stmt", "", <<versionLiteral.n>>, start,
                        SpanLength(t, versionLiteral.s, start)), versionLiteral.s))

parseImportStatement(t, s) ==
    LET start == getCurrentPosition(s)
        keyword == consumeWord(t, s, "import")
    IN  Then(parseString(t, skipWhitespace(t, keyword.s)), LAMBDA stringLiteral :
        LET as == consumeWord(t, skipWhitespace(t, stringLiteral.s), "as")
        IN  Then(parseIdentifier(t, skipWhitespace(t, as.s)), LAMBDA identifier :
            LET with == consumeWord(t, skipWhitespace(t, identifier.s), "with")
            IN  Then(IF with.ok
                     THEN parseImportOptions(t, skipWhitespace(t, with.s))
                     ELSE R(NoNode, with.s), LAMBDA importOpts :
                LET children == IF IsNull(importOpts.n) THEN <<stringLiteral.n, identifier.n>>
                                ELSE <<stringLiteral.n, identifier.n, importOpts.n>>
                IN  IF ~keyword.ok THEN R(NoNode, s)
                    ELSE IF IsNull(stringLiteral.n)
                         THEN R(NoNode, addError(stringLiteral.s,
                                    "Expected string literal after \"import\""))
                    ELSE IF ~as.ok
                         THEN R(NoNode, addError(as.s, "Expected \"as\" after import string"))
                    ELSE IF IsNull(identifier.n)
                         THEN R(NoNode, addError(identifier.s, "Expected identifier after \"as\""))
                    ELSE R(Node("import_stmt", "", children, start,
                                SpanLength(t, importOpts.s, start)), importOpts.s))))

parseResolverDefault(t, s) ==
    LET start == getCurrentPosition(s)
        resolver == consumeWord(t, s, "resolver")
        default == consumeWord(t, skipWhitespace(t, resolver.s), "default")
        uses == consumeWord(t, skipWhitespace(t, default.s), "uses")
    IN  Then(parseUsesClause(t, skipWhitespace(t, uses.s)), LAMBDA usesClause :
            IF ~resolver.ok THEN R(NoNode, s)
            ELSE IF ~default.ok
                 THEN R(NoNode, addError(default.s, "Expected \"default\" after \"resolver\""))
            ELSE IF ~uses.ok
                 THEN R(NoNode, addError(uses.s, "Expected \"uses\" after \"resolver default\""))
            ELSE IF IsNull(usesClause.n)
                 THEN R(NoNode, addError(usesClause.s, "Expected uses clause after \"uses\""))
            ELSE R(Node("resolver_default", "", <<usesClause.n>>, start,
                        SpanLength(t, usesClause.s, start)), usesClause.s))


parseRuleDefinition(t, s) ==
    LET start == getCurrentPosition(s)
    IN  Then(parseIdentifier(t, skipWhitespace(t, s)), LAMBDA identifier :
        LET eq == consume(t, skipWhitespace(t, identifier.s), "=")
        IN  IF identifier.n = NoNode THEN R(NoNode, identifier.s)
            ELSE IF ~eq.ok
                 THEN R(NoNode, addError(eq.s, "Expected \"=\" after rule name"))
            ELSE Then(parseExpression(t, skipWhitespace(t, eq.s), 0), LAMBDA expression :
                IF expression.n = NoNode
                THEN R(NoNode, addError(expression.s, "Expected expression after \"=\""))
                ELSE Then(IF peekWord(t, skipWhitespace(t, expression.s)) = "uses"
                          THEN parseUsesClause(t,
                                   skipWhitespace(t,
                                       consumeWord(t, skipWhitespace(t, expression.s),
                                                   "uses").s))
                          ELSE R(NoNode, skipWhitespace(t, expression.s)),
                          LAMBDA usesClause :
                    R(Node("rule_def", "",
                           IF IsNull(usesClause.n) THEN <<identifier.n, expression.n>>
                           ELSE <<identifier.n, expression.n, usesClause.n>>,
                           start, SpanLength(t, usesClause.s, start)), usesClause.s))))

\* the version statement of parseRoot, after the leading white space
RootVersion(t, s) ==
    IF peek(t, s) # EOF
    THEN Then(parseVersionStatement(t, s), LAMBDA versionStmt :
             L(IF IsNull(versionStmt.n) THEN <<>> ELSE <<versionStmt.n>>,
               versionStmt.s))
    ELSE L(<<>>, s)

\* the import loop of parseRoot: l holds the children so far and the state
RECURSIVE ImportLoop(_, _)
ImportLoop(t, l) ==
    IF peek(t, l.s) # EOF /\ peekWord(t, l.s) = "import"
    THEN Then(parseImportStatement(t, l.s), LAMBDA importStmt :
             ImportLoop(t, L(IF IsNull(importStmt.n) THEN l.c
                             ELSE Append(l.c, importStmt.n), importStmt.s)))
    ELSE l

\* the resolver default of parseRoot
RootResolver(t, l) ==
    IF peek(t, l.s) # EOF /\ peekWord(t, l.s) = "resolver"
    THEN Then(parseResolverDefault(t, l.s), LAMBDA resolverStmt :
             L(IF IsNull(resolverStmt.n) THEN l.c
               ELSE Append(l.c, resolverStmt.n), resolverStmt.s))
    ELSE l

\* the rule loop of parseRoot: it breaks at the first rule that fails
RECURSIVE RuleLoop(_, _)
RuleLoop(t, l) ==
    IF peek(t, l.s) # EOF
    THEN Then(parseRuleDefinition(t, l.s), LAMBDA ruleStmt :
             IF ruleStmt.n = NoNode THEN L(l.c, ruleStmt.s)
             ELSE RuleLoop(t, L(Append(l.c, ruleStmt.n), ruleStmt.s)))
    ELSE l

parseRoot(t, s) ==
    Then(RuleLoop(t, RootResolver(t, ImportLoop(t,
             RootVersion(t, skipWhitespace(t, s))))), LAMBDA rules :
        R(Node("root", "", rules.c, getCurrentPosition(s),
               SpanLength(t, rules.s, s)), rules.s))

\* parse() without its catch block: the exception reaches the caller
parse_NoCatch(t) ==
    Then(parseRoot(t, NewParser), LAMBDA root :
        [ast |-> IF root.s.thrown THEN NoNode ELSE root.n,
         errors |-> root.s.errors, raised |-> root.s.thrown])

\* parse() whose catch block empties the error list before its push
parse_OnlyRaisedError(t) ==
    Then(parseRoot(t, NewParser), LAMBDA root :
        IF ~root.s.thrown
        THEN [ast |-> root.n, errors |-> root.s.errors, raised |-> FALSE]
        ELSE [ast |-> Node("root", "", <<>>, [line |-> 1, column |-> 1], Len(t)),
              errors |-> <<[message |-> "Maximum call stack size exceeded",
                            line |-> root.s.line, column |-> root.s.column,
                            length |-> 1]>>,
              raised |-> FALSE])

\* OMGParser.parse() of a parser constructed on text t: the try block runs
\* parseRoot, the catch block turns the exception into one more error and the
\* minimal root; raised tells whether the call raised instead of returning
parse(t) ==
    Then(parseRoot(t, NewParser), LAMBDA root :
        IF ~root.s.thrown
        THEN [ast |-> root.n, errors |-> root.s.errors, raised |-> FALSE]
        ELSE [ast |-> Node("root", "", <<>>, [line |-> 1, column |-> 1], Len(t)),
              errors |-> Append(root.s.errors,
                            [message |-> "Maximum call stack size exceeded",
                             line |-> root.s.line, column |-> root.s.column,
                             length |-> 1]),
              raised |-> FALSE])

\* parse() called on a parser in state s: the error list is emptied and the
\* cursor is left where it is; result is what the call returns, parser the
\* state it leaves
parseOn(t, s) ==
    Then(parseRoot(t, [s EXCEPT !.errors = <<>>, !.thrown = FALSE]), LAMBDA root :
        [result |->
            IF ~root.s.thrown
            THEN [ast |-> root.n, errors |-> root.s.errors, raised |-> FALSE]
            ELSE [ast |-> Node("root", "", <<>>, [line |-> 1, column |-> 1], Len(t)),
                  errors |-> Append(root.s.errors,
                                [message |-> "Maximum call stack size exceeded",
                                 line |-> root.s.line, column |-> root.s.column,
                                 length |-> 1]),
                  raised |-> FALSE],
         parser |-> root.s])

(***************************************************************************)
(* AST navigation                                                          *)
(***************************************************************************)
Covers(n, line, column) ==
    n.line = line /\ column >= n.column /\ column < n.column + n.length

RECURSIVE findNodeAt(_, _, _)
RECURSIVE FirstChildMatch(_, _, _, _)

\* the first child, from the i-th on, in which findNodeAt finds a node
FirstChildMatch(children, i, line, column) ==
    IF i > Len(children) THEN NoNode
    ELSE LET childMatch == findNodeAt(children[i], line, column)
         IN  IF ~IsNull(childMatch) THEN childMatch
             ELSE FirstChildMatch(children, i + 1, line, column)

findNodeAt(ast, line, column) ==
    IF Covers(ast, line, column)
    THEN LET childMatch == FirstChildMatch(ast.children, 1, line, column)
         IN  IF ~IsNull(childMatch) THEN childMatch ELSE ast
    ELSE NoNode

RECURSIVE findNodesOfType(_, _)
RECURSIVE NodesOfTypeIn(_, _, _)

NodesOfTypeIn(children, i, nodeType) ==
    IF i > Len(children) THEN <<>>
    ELSE findNodesOfType(children[i], nodeType)
         \o NodesOfTypeIn(children, i + 1, nodeType)

\* findNodesOfType pushing a node after the nodes found below it
findNodesOfType_ChildrenFirst(ast, nodeType) ==
    NodesOfTypeIn(ast.children, 1, nodeType)
    \o (IF ast.type = nodeType THEN <<ast>> ELSE <<>>)

findNodesOfType(ast, nodeType) ==
    (IF ast.type = nodeType THEN <<ast>> ELSE <<>>)
    \o NodesOfTypeIn(ast.children, 1, nodeType)

(***************************************************************************)
(* Diagnostics                                                             *)
(***************************************************************************)
\* new vscode.Range(startLine, startCharacter, endLine, endCharacter)
Range(startLine, startCharacter, endLine, endCharacter) ==
    [startLine |-> startLine, startCharacter |-> startCharacter,
     endLine |-> endLine, endCharacter |-> endCharacter]

\* new vscode.Diagnostic(range, message, severity), code and source unset
Diagnostic(range, message, severity) ==
    [range |-> range, message |-> message, severity |-> severity,
     code |-> "", source |-> ""]

\* the editor's range of a node or parse error: 0-based line and characters
RangeOf(n) ==
    Range(n.line - 1, n.column - 1, n.line - 1, n.column - 1 + n.length)

(***************************************************************************)
(* Semantic validation: undefined references and unbounded ranges          *)
(***************************************************************************)
BuiltIns == {"exact", "fuzzy", "phonetic", "semantic", "regex", "custom"}

isBuiltInIdentifier(name) == name \in BuiltIns

\* isImportedIdentifier comparing the name with the first child of the import
\* statement, its string, instead of the second, its alias
isImportedIdentifier_FirstChild(name, ast) ==
    LET importStatements == findNodesOfType(ast, "import_stmt")
    IN  \E i \in 1..Len(importStatements) :
            /\ Len(importStatements[i].children) >= 2
            /\ importStatements[i].children[1].value = name

isImportedIdentifier(name, ast) ==
    LET importStatements == findNodesOfType(ast, "import_stmt")
    IN  \E i \in 1..Len(importStatements) :
            /\ Len(importStatements[i].children) >= 2
            /\ importStatements[i].children[2].value = name

\* the names of the rule definitions: the value of each rule_def's first child
DefinedRules(ast) ==
    LET ruleDefinitions == findNodesOfType(ast, "rule_def")
    IN  { ruleDefinitions[i].children[1].value :
            i \in { j \in 1..Len(ruleDefinitions) :
                      Len(ruleDefinitions[j].children) >= 1 } }

IsUndefinedReference(identifier, ast) ==
    /\ identifier.value # ""
    /\ identifier.value \notin DefinedRules(ast)
    /\ ~isBuiltInIdentifier(identifier.value)
    /\ ~isImportedIdentifier(identifier.value, ast)

UndefinedReferenceDiagnostic(identifier) ==
    Diagnostic(RangeOf(identifier),
               "Undefined rule reference: " \o identifier.value, "Error")

RECURSIVE UndefinedReferencesFrom(_, _, _)
UndefinedReferencesFrom(identifierNodes, i, ast) ==
    IF i > Len(identifierNodes) THEN <<>>
    ELSE (IF IsUndefinedReference(identifierNodes[i], ast)
          THEN <<UndefinedReferenceDiagnostic(identifierNodes[i])>>
          ELSE <<>>)
         \o UndefinedReferencesFrom(identifierNodes, i + 1, ast)

\* validateSemantics, first pass
UndefinedReferences(ast) ==
    UndefinedReferencesFrom(findNodesOfType(ast, "identifier"), 1, ast)

IsUnboundedRange(quantifier) ==
    quantifier.type = "range" /\ Len(quantifier.children) = 1

RECURSIVE UnboundedFrom(_, _)
UnboundedFrom(quantifierNodes, i) ==
    IF i > Len(quantifierNodes) THEN <<>>
    ELSE (IF IsUnboundedRange(quantifierNodes[i])
          THEN <<Diagnostic(RangeOf(quantifierNodes[i]),
                            "Unbounded quantifiers are not allowed in OMG",
                            "Error")>>
          ELSE <<>>)
         \o UnboundedFrom(quantifierNodes, i + 1)

\* validateSemantics, second pass: it looks the nodes up by type "quantifier"
UnboundedQuantifiers(ast) ==
    UnboundedFrom(findNodesOfType(ast, "quantifier"), 1)

(***************************************************************************)
(* Semantic validation: the text scan for + and *                          *)
(***************************************************************************)
\* line.indexOf(c) from offset i on, -1 when absent
IndexFrom(line, c, i) ==
    Least({ j \in i..(Len(line) - 1) : charAt(line, j) = c }, -1)

indexOf(line, c) == IndexFrom(line, c, 0)

\* text.split('\n')
RECURSIVE split(_)
split(t) ==
    LET nl == indexOf(t, "\n")
    IN  IF nl = -1 THEN <<t>>
        ELSE <<slice(t, 0, nl)>> \o split(slice(t, nl + 1, Len(t)))

\* (line.substring(0, position).match(/"/g) || []).length
QuotesBefore(line, position) ==
    Cardinality({ i \in 0..(position - 1) : charAt(line, i) = "\"" })

\* the loop of isInsideCharacterClass from offset i, inside a quoted string
RECURSIVE SkipQuoted(_, _)
SkipQuoted(line, i) ==
    IF i < Len(line) /\ charAt(line, i) # "\""
    THEN IF charAt(line, i) = "\\" /\ i + 1 < Len(line)
         THEN SkipQuoted(line, i + 2)
         ELSE SkipQuoted(line, i + 1)
    ELSE IF i < Len(line) THEN i + 1 ELSE i

RECURSIVE BracketCount(_, _, _, _)
BracketCount(line, position, i, bracketCount) ==
    IF i < position
    THEN LET char == charAt(line, i)
         IN  IF char = "\\" /\ i + 1 < Len(line)
             THEN BracketCount(line, position, i + 2, bracketCount)
             ELSE IF char = "\""
             THEN BracketCount(line, position, SkipQuoted(line, i + 1), bracketCount)
             ELSE IF char = "["
             THEN BracketCount(line, position, i + 1, bracketCount + 1)
             ELSE IF char = "]"
             THEN BracketCount(line, position, i + 1, bracketCount - 1)
             ELSE BracketCount(line, position, i + 1, bracketCount)
    ELSE bracketCount

isInsideCharacterClass(line, position) ==
    BracketCount(line, position, 0, 0) > 0

\* /[a-zA-Z0-9\])\}.]$/
ValidPrecedingElements == Letters \cup Digits \cup {"]", ")", "}", "."}

isQuantifierContext(line, position) ==
    LET commentIndex == indexOf(line, "#")
        precedingChar == charAt(line, position - 1)
    IN  IF commentIndex # -1 /\ position > commentIndex THEN FALSE
        ELSE IF QuotesBefore(line, position) % 2 = 1 THEN FALSE
        ELSE IF isInsideCharacterClass(line, position) THEN FALSE
        ELSE IF precedingChar = "" \/ precedingChar = " " \/ precedingChar = "\t"
             THEN FALSE
        ELSE precedingChar \in ValidPrecedingElements

PlusMessage ==
    "Open-ended quantifier \"+\" is not allowed in OMG. Use bounded quantifiers like {1,10} instead."

StarMessage ==
    "Open-ended quantifier \"*\" is not allowed in OMG. Use bounded quantifiers like {0,10} instead."

\* the diagnostics of the matches of one character in one line, from column on
RECURSIVE QuantifierMatches(_, _, _, _, _)
QuantifierMatches(line, lineIndex, c, message, column) ==
    Then(IndexFrom(line, c, column), LAMBDA index :
        IF index = -1 THEN <<>>
        ELSE (IF isQuantifierContext(line, index)
              THEN <<Diagnostic(Range(lineIndex, index, lineIndex, index + 1),
                                message, "Error")>>
              ELSE <<>>)
             \o QuantifierMatches(line, lineIndex, c, message, index + 1))

RECURSIVE QuantifierLines(_, _)
QuantifierLines(lines, i) ==
    IF i > Len(lines) THEN <<>>
    ELSE QuantifierMatches(lines[i], i - 1, "+", PlusMessage, 0)
         \o QuantifierMatches(lines[i], i - 1, "*", StarMessage, 0)
         \o QuantifierLines(lines, i + 1)

validateQuantifiers(t) == QuantifierLines(split(t), 1)

(***************************************************************************)
(* Semantic validation: referenced files                                   *)
(***************************************************************************)
\* uri.scheme === 'file' ? path.dirname(uri.fsPath) : ''
getSourceDirectory(uriScheme) == IF uriScheme = "file" THEN "/" ELSE ""

\* fileExists looking the file up whatever the directory, outside try/catch
fileExists_AlwaysLooksUp(sourceDir, filePath, existing) ==
    filePath \in existing.existing

\* fs.existsSync(path.resolve(sourceDir, filePath)) inside try/catch: existing
\* is the file system, the set of the paths that exist relative to the
\* directory of the document and whether the look-up raises; the catch block
\* answers true
fileExists(sourceDir, filePath, existing) ==
    IF sourceDir = "" THEN TRUE
    ELSE IF existing.raises THEN TRUE
    ELSE filePath \in existing.existing

FileDiagnostic(range, message, code) ==
    [Diagnostic(range, message, "Error") EXCEPT !.code = code, !.source = "OMG"]

\* the length of the longest run of characters of set cs from offset i of a line
RECURSIVE Run(_, _, _)
Run(line, i, cs) ==
    IF charAt(line, i) # "" /\ charAt(line, i) \in cs
    THEN 1 + Run(line, i + 1, cs) ELSE 0

\* the length of the longest run of characters other than c from offset i
RECURSIVE RunUntil(_, _, _)
RunUntil(line, i, c) ==
    IF charAt(line, i) # "" /\ charAt(line, i) # c
    THEN 1 + RunUntil(line, i + 1, c) ELSE 0

NoMatch == [index |-> -1, length |-> 0, quote |-> 0, filePath |-> ""]

\* /import\s+"([^"]+)"\s+as\s+\w+/ anchored at offset i: the match, its
\* offset of the opening quote and its group 1
ImportMatchAt(line, i) ==
    LET ws1 == Run(line, i + 6, WhiteSpace)
        quote == i + 6 + ws1
        n == RunUntil(line, quote + 1, "\"")
        ws2 == Run(line, quote + n + 2, WhiteSpace)
        as == quote + n + 2 + ws2
        ws3 == Run(line, as + 2, WhiteSpace)
        w == Run(line, as + 2 + ws3, IdentChars)
    IN  IF /\ slice(line, i, i + 6) = "import"
           /\ ws1 >= 1
           /\ charAt(line, quote) = "\""
           /\ n >= 1
           /\ charAt(line, quote + n + 1) = "\""
           /\ ws2 >= 1
           /\ slice(line, as, as + 2) = "as"
           /\ ws3 >= 1
           /\ w >= 1
        THEN [index |-> i, length |-> as + 2 + ws3 + w - i, quote |-> quote,
              filePath |-> slice(line, quote + 1, quote + 1 + n)]
        ELSE NoMatch

\* /optional-tokens\s*\(\s*"([^"]+)"\s*\)/ anchored at offset i
OptionalTokensMatchAt(line, i) ==
    LET ws1 == Run(line, i + 15, WhiteSpace)
        paren == i + 15 + ws1
        ws2 == Run(line, paren + 1, WhiteSpace)
        quote == paren + 1 + ws2
        n == RunUntil(line, quote + 1, "\"")
        ws3 == Run(line, quote + n + 2, WhiteSpace)
        close1 == quote + n + 2 + ws3
    IN  IF /\ slice(line, i, i + 15) = "optional-tokens"
           /\ charAt(line, paren) = "("
           /\ charAt(line, quote) = "\""
           /\ n >= 1
           /\ charAt(line, quote + n + 1) = "\""
           /\ charAt(line, close1) = ")"
        THEN [index |-> i, length |-> close1 + 1 - i, quote |-> quote,
              filePath |-> slice(line, quote + 1, quote + 1 + n)]
        ELSE NoMatch

\* regex.exec(line) with regex.lastIndex = lastIndex: the leftmost match at
\* or after lastIndex, NoMatch for null
RegexExec(line, regex, lastIndex) ==
    IF regex = "importRegex"
    THEN ImportMatchAt(line,
             Least({ i \in lastIndex..(Len(line) - 1) :
                         ImportMatchAt(line, i).index # -1 }, Len(line)))
    ELSE OptionalTokensMatchAt(line,
             Least({ i \in lastIndex..(Len(line) - 1) :
                         OptionalTokensMatchAt(line, i).index # -1 }, Len(line)))

\* the exec() loop of a global regular expression over one line: each match
\* whose file is missing gives a diagnostic spanning the quoted file name
RECURSIVE RegexFileMatches(_, _, _, _, _, _, _, _)
RegexFileMatches(line, lineIndex, regex, message, code, sourceDir, existing, lastIndex) ==
    Then(RegexExec(line, regex, lastIndex), LAMBDA match :
        IF match.index = -1 THEN <<>>
        ELSE (IF ~fileExists(sourceDir, match.filePath, existing)
              THEN <<FileDiagnostic(
                       Range(lineIndex, match.quote, lineIndex,
                             match.quote + Len(match.filePath) + 2),
                       message \o match.filePath, code)>>
              ELSE <<>>)
             \o RegexFileMatches(line, lineIndex, regex, message, code,
                                 sourceDir, existing,
                                 match.index + match.length))

RECURSIVE RegexFileLines(_, _, _, _)
RegexFileLines(lines, i, sourceDir, existing) ==
    IF i > Len(lines) THEN <<>>
    ELSE RegexFileMatches(lines[i], i - 1, "importRegex",
                          "Import file not found: ", "missing-import-file",
                          sourceDir, existing, 0)
         \o RegexFileMatches(lines[i], i - 1, "optionalTokensRegex",
                             "Optional-tokens file not found: ",
                             "missing-optional-tokens-file",
                             sourceDir, existing, 0)
         \o RegexFileLines(lines, i + 1, sourceDir, existing)

\* quotedPath.match(/^"([^"]*)"$/): the path between the quotes, "" for null
extractFilePath(quotedPath) ==
    IF /\ Len(quotedPath) >= 2
       /\ charAt(quotedPath, 0) = "\""
       /\ RunUntil(quotedPath, 1, "\"") = Len(quotedPath) - 2
    THEN slice(quotedPath, 1, Len(quotedPath) - 1)
    ELSE ""

RECURSIVE ImportFilesFrom(_, _, _, _)
ImportFilesFrom(importStatements, i, sourceDir, existing) ==
    IF i > Len(importStatements) THEN <<>>
    ELSE LET children == importStatements[i].children
             filePath == extractFilePath(children[1].value)
         IN  (IF /\ Len(children) >= 1
                 /\ children[1].type = "string"
                 /\ filePath # ""
                 /\ ~fileExists(sourceDir, filePath, existing)
              THEN <<FileDiagnostic(RangeOf(children[1]),
                                    "Import file not found: " \o filePath,
                                    "missing-import-file")>>
              ELSE <<>>)
             \o ImportFilesFrom(importStatements, i + 1, sourceDir, existing)

\* value.includes(word)
includes(value, word) ==
    \E i \in 0..Len(value) : slice(value, i, i + Len(word)) = word

\* the matches of /"([^"]+)"/g in argsString from offset lastIndex on
RECURSIVE QuotedMatches(_, _)
QuotedMatches(argsString, lastIndex) ==
    IF lastIndex >= Len(argsString) THEN <<>>
    ELSE LET n == RunUntil(argsString, lastIndex + 1, "\"")
         IN  IF /\ charAt(argsString, lastIndex) = "\""
                /\ n >= 1
                /\ charAt(argsString, lastIndex + 1 + n) = "\""
             THEN <<[index |-> lastIndex, length |-> n + 2,
                     filePath |-> slice(argsString, lastIndex + 1,
                                        lastIndex + 1 + n)]>>
                  \o QuotedMatches(argsString, lastIndex + n + 2)
             ELSE QuotedMatches(argsString, lastIndex + 1)

\* group 1 of value.match(/optional-tokens\s*\(\s*([^)]+)\s*\)/) from offset i
\* on, "" for no match; when only white space precedes the closing
\* parenthesis, backtracking leaves its last character to the group
RECURSIVE OptionalTokensArgs(_, _)
OptionalTokensArgs(value, i) ==
    IF i >= Len(value) THEN ""
    ELSE LET ws1 == Run(value, i + 15, WhiteSpace)
             paren == i + 15 + ws1
             ws2 == Run(value, paren + 1, WhiteSpace)
             n == RunUntil(value, paren + 1 + ws2, ")")
             from == IF n >= 1 THEN paren + 1 + ws2 ELSE paren + ws2
         IN  IF /\ slice(value, i, i + 15) = "optional-tokens"
                /\ charAt(value, paren) = "("
                /\ (n >= 1 \/ ws2 >= 1)
                /\ charAt(value, paren + 1 + ws2 + n) = ")"
             THEN slice(value, from, paren + 1 + ws2 + n)
             ELSE OptionalTokensArgs(value, i + 1)

extractOptionalTokensFiles(flag) ==
    LET fileMatches == QuotedMatches(OptionalTokensArgs(flag.value, 0), 0)
    IN  [i \in 1..Len(fileMatches) |->
            [filePath |-> fileMatches[i].filePath,
             line |-> flag.line,
             column |-> flag.column + fileMatches[i].index,
             length |-> fileMatches[i].length]]

RECURSIVE OptionalTokensRefsFrom(_, _, _, _)
OptionalTokensRefsFrom(fileReferences, i, sourceDir, existing) ==
    IF i > Len(fileReferences) THEN <<>>
    ELSE (IF ~fileExists(sourceDir, fileReferences[i].filePath, existing)
          THEN <<FileDiagnostic(RangeOf(fileReferences[i]),
                     "Optional-tokens file not found: "
                         \o fileReferences[i].filePath,
                     "missing-optional-tokens-file")>>
          ELSE <<>>)
         \o OptionalTokensRefsFrom(fileReferences, i + 1, sourceDir, existing)

RECURSIVE OptionalTokensFlagsFrom(_, _, _, _)
OptionalTokensFlagsFrom(resolverFlags, i, sourceDir, existing) ==
    IF i > Len(resolverFlags) THEN <<>>
    ELSE (IF /\ resolverFlags[i].value # ""
             /\ includes(resolverFlags[i].value, "optional-tokens")
          THEN OptionalTokensRefsFrom(
                   extractOptionalTokensFiles(resolverFlags[i]), 1,
                   sourceDir, existing)
          ELSE <<>>)
         \o OptionalTokensFlagsFrom(resolverFlags, i + 1, sourceDir, existing)

validateOptionalTokensFiles(ast, sourceDir, existing) ==
    OptionalTokensFlagsFrom(findNodesOfType(ast, "resolver_flag"), 1,
                            sourceDir, existing)

validateFileReferences(omgDoc, existing) ==
    LET sourceDir == getSourceDirectory(omgDoc.uriScheme)
    IN  RegexFileLines(split(omgDoc.text), 1, sourceDir, existing)
        \o ImportFilesFrom(findNodesOfType(omgDoc.ast, "import_stmt"), 1,
                           sourceDir, existing)
        \o validateOptionalTokensFiles(omgDoc.ast, sourceDir, existing)

(***************************************************************************)
(* The language service                                                    *)
(***************************************************************************)
\* the entry of a URI the service has not seen
NoDocument ==
    [uriScheme |-> "", text |-> "", version |-> -1, ast |-> NoNode,
     errors |-> <<>>]

RECURSIVE ErrorDiagnostics(_, _)
ErrorDiagnostics(errors, i) ==
    IF i > Len(errors) THEN <<>>
    ELSE <<Diagnostic(RangeOf(errors[i]), errors[i].message, "Error")>>
         \o ErrorDiagnostics(errors, i + 1)

\* updateDocument answering from the entry the service holds, once it holds
\* one, without parsing the text again
updateDocument_KeepsEntry(uriScheme, documentText, documentVersion) ==
    IF documents # NoDocument
    THEN [raised |-> FALSE, document |-> documents]
    ELSE Then(parse(documentText), LAMBDA parseResult :
        [raised |-> parseResult.raised,
         document |-> [uriScheme |-> uriScheme, text |-> documentText,
                       version |-> documentVersion, ast |-> parseResult.ast,
                       errors |-> ErrorDiagnostics(parseResult.errors, 1)]])

\* updateDocument: parse the text with a new parser, turn the parse errors
\* into diagnostics and put the entry into the documents map; document is the
\* entry, raised tells that parse raised and nothing was put
updateDocument(uriScheme, documentText, documentVersion) ==
    Then(parse(documentText), LAMBDA parseResult :
        [raised |-> parseResult.raised,
         document |-> [uriScheme |-> uriScheme, text |-> documentText,
                       version |-> documentVersion, ast |-> parseResult.ast,
                       errors |-> ErrorDiagnostics(parseResult.errors, 1)]])

validateSemantics(omgDoc, existing) ==
    UndefinedReferences(omgDoc.ast)
    \o UnboundedQuantifiers(omgDoc.ast)
    \o validateQuantifiers(omgDoc.text)
    \o validateFileReferences(omgDoc, existing)

\* provideDiagnostics, given the entry updateDocument made
DiagnosticsOf(omgDoc, existing) ==
    omgDoc.errors \o validateSemantics(omgDoc, existing)

(***************************************************************************)
(* The language service: requests at a position of the document            *)
(***************************************************************************)
\* no request has been answered
NoAnswer ==
    [kind |-> "none", line |-> 0, column |-> 0, node |-> NoNode,
     locations |-> <<>>]

\* the locations of the rule definitions, from the i-th on, whose name is that
\* of the node
RECURSIVE DefinitionFrom(_, _, _)
DefinitionFrom(ruleDefinitions, i, node) ==
    IF i > Len(ruleDefinitions) THEN <<>>
    ELSE IF /\ Len(ruleDefinitions[i].children) >= 1
            /\ ruleDefinitions[i].children[1].type = "identifier"
            /\ ruleDefinitions[i].children[1].value = node.value
         THEN <<RangeOf(ruleDefinitions[i])>>
         ELSE DefinitionFrom(ruleDefinitions, i + 1, node)

\* provideDefinition past findNodeAt: the location of the first rule
\* definition with the name of the identifier found, none otherwise
DefinitionOf(ast, node) ==
    IF IsNull(node) THEN <<>>
    ELSE IF node.type = "identifier" /\ node.value # ""
         THEN DefinitionFrom(findNodesOfType(ast, "rule_def"), 1, node)
         ELSE <<>>

RECURSIVE ReferencesFrom(_, _, _)
ReferencesFrom(identifierNodes, i, node) ==
    IF i > Len(identifierNodes) THEN <<>>
    ELSE (IF identifierNodes[i].value = node.value
          THEN <<RangeOf(identifierNodes[i])>> ELSE <<>>)
         \o ReferencesFrom(identifierNodes, i + 1, node)

\* provideReferences past findNodeAt: the locations of the identifiers with
\* the value of the identifier found
ReferencesOf(ast, node) ==
    IF IsNull(node) \/ node.type # "identifier" \/ node.value = "" THEN <<>>
    ELSE ReferencesFrom(findNodesOfType(ast, "identifier"), 1, node)

\* the answer of a request of a kind at a position of the editor (0-based),
\* given the tree it queries: the node found at the position, from which the
\* hover text and the completions are made, and the locations of the
\* definition or of the references
AnswerOf(kind, ast, position) ==
    Then(findNodeAt(ast, position.line + 1, position.character + 1), LAMBDA node :
        [kind |-> kind, line |-> position.line + 1,
         column |-> position.character + 1, node |-> node,
         locations |-> IF kind = "definition" THEN DefinitionOf(ast, node)
                       ELSE IF kind = "references" THEN ReferencesOf(ast, node)
                       ELSE <<>>])

\* the body shared by the providers: updateDocument(document), then the query
\* of the tree of the entry it returns; an exception of updateDocument
\* leaves the request unanswered
Provide(kind, position) ==
    Then(updateDocument(scheme, text, version), LAMBDA update :
        IF update.raised
        THEN UNCHANGED <<documents, answer>>
        ELSE /\ documents' = update.document
             /\ answer' = AnswerOf(kind, update.document.ast, position))

\* provideHover: its catch block falls back to the hover made from the text
\* of the line, as it does when no node is found
provideHover(position) ==
    /\ open
    /\ Then(updateDocument(scheme, text, version), LAMBDA update :
            IF update.raised
            THEN /\ answer' = [NoAnswer EXCEPT !.kind = "hover",
                                               !.line = position.line + 1,
                                               !.column = position.character + 1]
                 /\ UNCHANGED documents
            ELSE /\ documents' = update.document
                 /\ answer' = AnswerOf("hover", update.document.ast, position))
    /\ UNCHANGED <<scheme, files, text, version, open, diagnostics, entries>>

provideCompletionItems(position) ==
    /\ open
    /\ Provide("completion", position)
    /\ UNCHANGED <<scheme, files, text, version, open, diagnostics, entries>>

provideDefinition(position) ==
    /\ open
    /\ Provide("definition", position)
    /\ UNCHANGED <<scheme, files, text, version, open, diagnostics, entries>>

provideReferences(position) ==
    /\ open
    /\ Provide("references", position)
    /\ UNCHANGED <<scheme, files, text, version, open, diagnostics, entries>>

(***************************************************************************)
(* Documents the model edits                                               *)
(***************************************************************************)
Schemes == {"file", "untitled"}

\* a file system in which the paths of set paths exist
FileSystem(paths) == [existing |-> paths, raises |-> FALSE]

\* the file systems: the directory of the document is empty or holds f
FileSystems == {FileSystem({}), FileSystem({"f"})}

\* whole statements a change event appends to the document
Lines ==
    { "version 1.0\n",
      "import \"f\" as x\n",
      "import \"g\" as exact with word-prefix, line-end\n",
      "a = b\n",
      "b = [[x]] c\n",
      "r = (u",
      "r = ( a | b c",
      "n = (?P<m>a)\n",
      "q = [[x]]{2,}\n",
      "q = x{1,3} a{2}\n",
      "p = a+ b*\n",
      "s = \"#\" a*\n",
      "c = [+#] \"*\" b+ # a+\n",
      "d = fuzzy | e uses exact\n",
      "e = ((",
      "((" }

\* pieces of statements a change event appends to the document
Pieces == { "a=(", "((", ")", "[", "]", "\"", "{1,", "|", "\\", " \n", "b",
            "version " }

(***************************************************************************)
(* The extension: document events                                          *)
(***************************************************************************)
\* updateDiagnostics that leaves the published diagnostics of a document that
\* has some
updateDiagnostics_KeepsPublished(documentText, documentVersion) ==
    Then(updateDocument(scheme, documentText, documentVersion), LAMBDA update :
        IF update.raised
        THEN UNCHANGED <<documents, diagnostics>>
        ELSE /\ documents' = update.document
             /\ diagnostics' = IF diagnostics # <<>> THEN diagnostics
                               ELSE DiagnosticsOf(update.document, files))

\* updateDiagnostics(document): provideDiagnostics updates the service's entry
\* and the result replaces the collection's entry; an exception is logged and
\* leaves both as they are
updateDiagnostics(documentText, documentVersion) ==
    Then(updateDocument(scheme, documentText, documentVersion), LAMBDA update :
        IF update.raised
        THEN UNCHANGED <<documents, diagnostics>>
        ELSE /\ documents' = update.document
             /\ diagnostics' = DiagnosticsOf(update.document, files))

onDidOpenTextDocument ==
    /\ ~open
    /\ open' = TRUE
    /\ updateDiagnostics(text, version)
    /\ UNCHANGED <<scheme, files, text, version, answer, entries>>

onDidChangeTextDocument(change) ==
    /\ open
    /\ text' = text \o change
    /\ version' = version + 1
    /\ updateDiagnostics(text \o change, version + 1)
    /\ UNCHANGED <<scheme, files, open, answer, entries>>

onDidSaveTextDocument ==
    /\ open
    /\ updateDiagnostics(text, version)
    /\ UNCHANGED <<scheme, files, text, version, open, answer, entries>>

onDidCloseTextDocument ==
    /\ open
    /\ open' = FALSE
    /\ diagnostics' = <<>>
    /\ UNCHANGED <<scheme, files, text, version, documents, answer, entries>>

Init ==
    /\ scheme \in Schemes
    /\ files \in FileSystems
    /\ text = ""
    /\ version = 0
    /\ open = FALSE
    /\ documents = NoDocument
    /\ diagnostics = <<>>
    /\ answer = NoAnswer
    /\ entries = <<>>

Next ==
    \/ onDidOpenTextDocument
    \/ \E change \in Lines : version < MaxEdits /\ onDidChangeTextDocument(change)
    \/ onDidCloseTextDocument

Spec == Init /\ [][Next]_vars

\* a document typed piece by piece
NextTyping ==
    \/ onDidOpenTextDocument
    \/ \E change \in Pieces : version < MaxPieces /\ onDidChangeTextDocument(change)
    \/ onDidCloseTextDocument

InitTyping == Init /\ scheme = "untitled" /\ files = FileSystem({})

SpecTyping == InitTyping /\ [][NextTyping]_vars

\* statements that refer to files: imports and optional-tokens flags
FileLines ==
    { "version 1.0\n",
      "import \"f\" as x\n",
      "import \"g\" as exact with word-prefix, line-end\n",
      "resolver default uses exact with optional-tokens(\"f\")\n",
      "resolver default uses exact with optional-tokens(\"f\", \"g\")\n" }

\* a document of statements that refer to files, edited and saved
NextFiles ==
    \/ onDidOpenTextDocument
    \/ \E change \in FileLines : version < MaxEdits /\ onDidChangeTextDocument(change)
    \/ onDidSaveTextDocument
    \/ onDidCloseTextDocument

\* the file system may also be one whose look-ups raise
InitFiles ==
    /\ scheme \in Schemes
    /\ files \in FileSystems \cup {[existing |-> {}, raises |-> TRUE]}
    /\ text = ""
    /\ version = 0
    /\ open = FALSE
    /\ documents = NoDocument
    /\ diagnostics = <<>>
    /\ answer = NoAnswer
    /\ entries = <<>>

SpecFiles == InitFiles /\ [][NextFiles]_vars

\* statements that take the parser through each of its loops
LoopLines ==
    { "version 1.0\n",
      "import \"g\" as y with word-prefix, line-end\n",
      "resolver default uses m(\"a\", k=\"v\")\n",
      "resolver default uses exact with ignore-case, optional-tokens(\"f\", \"g\")\n",
      "a = b | c d\n",
      "c = [+#] \"*\" b+\n",
      "r = ( a | b c ) d\n" }

\* a document of such statements
NextLoops ==
    \/ onDidOpenTextDocument
    \/ \E change \in LoopLines : version < MaxEdits /\ onDidChangeTextDocument(change)
    \/ onDidCloseTextDocument

InitLoops == Init /\ scheme = "file" /\ files = FileSystem({})

SpecLoops == InitLoops /\ [][NextLoops]_vars

\* short statements that hold each kind of token, a list match that lacks its
\* closing brackets and a string that runs over a line break
TokenLines ==
    { "version 1.0\n",
      "import \"g\" as y with word-prefix\n",
      "resolver default uses m(k, a=\"v\")\n",
      "a = b\n",
      "b = [[x y]]\n",
      "c = [a-z] \\d \"s\"\n",
      "s = \"x\ny\"\n" }

\* a document of such statements
NextTokens ==
    \/ onDidOpenTextDocument
    \/ \E change \in TokenLines : version < MaxEdits /\ onDidChangeTextDocument(change)
    \/ onDidCloseTextDocument

InitTokens == Init /\ scheme = "file" /\ files = FileSystem({})

SpecTokens == InitTokens /\ [][NextTokens]_vars

\* statements of a document the editor sends requests on
RequestLines == { "a = b\n", "b = [[x]] c\n", "import \"f\" as x\n", "r = (u" }

\* the positions of the requests, 0-based: the first line, at its start and
\* at its fifth character
Positions == { [line |-> 0, character |-> c] : c \in {0, 4} }

\* a document that is edited and queried in turn
NextRequests ==
    \/ onDidOpenTextDocument
    \/ \E change \in RequestLines :
           version < MaxEdits /\ onDidChangeTextDocument(change)
    \/ \E position \in Positions : provideHover(position)
    \/ \E position \in Positions : provideCompletionItems(position)
    \/ \E position \in Positions : provideDefinition(position)
    \/ \E position \in Positions : provideReferences(position)
    \/ onDidCloseTextDocument

InitRequests == Init /\ scheme = "file" /\ files = FileSystem({})

SpecRequests == InitRequests /\ [][NextRequests]_vars

(***************************************************************************)
(* The language service: the documents map                                 *)
(***************************************************************************)
\* the documents the service is called with
Uris == { [scheme |-> "file", path |-> "/a.omg"],
          [scheme |-> "file", path |-> "/b.omg"] }

\* uri.toString()
toString(uri) == uri.scheme \o "://" \o uri.path

\* Map.set that adds a pair without looking for the key
MapSet_Appends(map, key, value) == Append(map, [key |-> key, value |-> value])

\* Map.set: the value of a key the map has is replaced in place, a new key is
\* added at the end
MapSet(map, key, value) ==
    IF \E i \in 1..Len(map) : map[i].key = key
    THEN [i \in 1..Len(map) |->
             IF map[i].key = key THEN [key |-> key, value |-> value] ELSE map[i]]
    ELSE Append(map, [key |-> key, value |-> value])

\* Map.get: the value of the key, or undefined (NoDocument)
MapGet(map, key) ==
    LET found == { i \in 1..Len(map) : map[i].key = key }
    IN  IF found = {} THEN NoDocument ELSE map[Greatest(found, 0)].value

getDocument(uri) == MapGet(entries, toString(uri))

\* updateDocument(document) for the document of the URI, with its text and
\* version: the entry is put into the map under the URI's string
updateDocumentOf(uri, documentText, documentVersion) ==
    /\ entries' = MapSet(entries, toString(uri),
                         updateDocument(uri.scheme, documentText,
                                        documentVersion).document)
    /\ UNCHANGED <<scheme, files, text, version, open, documents, diagnostics,
                   answer>>

\* statements typed into the documents
CacheLines == { "a = b\n", "version 1.0\n", "r = (u" }

\* a change of the document of the URI, after which the service is called
\* with it
onDidChangeDocumentOf(uri, change) ==
    IF getDocument(uri) = NoDocument
    THEN updateDocumentOf(uri, change, 1)
    ELSE /\ getDocument(uri).version < MaxEdits
         /\ updateDocumentOf(uri, getDocument(uri).text \o change,
                             getDocument(uri).version + 1)

\* several documents edited in turn
NextCache == \E uri \in Uris, change \in CacheLines : onDidChangeDocumentOf(uri, change)

InitCache == Init /\ scheme = "file" /\ files = FileSystem({})

SpecCache == InitCache /\ [][NextCache]_vars

(***************************************************************************)
(* Semantic validation of a given tree                                     *)
(***************************************************************************)
\* the largest number in a quantifier of a given tree
MaxCount == 2

Numerals == <<"0", "1", "2", "3", "4", "5", "6", "7", "8", "9">>

OnLine1(column) == [line |-> 1, column |-> column]

Identifier(name, column) == Node("identifier", name, <<>>, OnLine1(column), Len(name))

Number(n, column) == Node("number", Numerals[n + 1], <<>>, OnLine1(column), 1)

\* the primaries of the given trees, each starting at column 5
GivenPrimaries ==
    { Identifier("a", 5), Identifier("b", 5), Identifier("r", 5),
      Identifier("exact", 5),
      Node("list_match", "", <<Identifier("x", 7)>>, OnLine1(5), 5),
      Node("named_capture", "", <<Identifier("m", 9), Identifier("a", 11)>>,
           OnLine1(5), 8) }

\* the quantifier nodes at a column: ?, {n}, {n,m} and {n,}
GivenQuantifiers(column) ==
    {Node("qmark", "", <<>>, OnLine1(column), 1)}
    \cup { Node("exact_range", "", <<Number(n, column + 1)>>, OnLine1(column), 3) :
             n \in 0..MaxCount }
    \cup { Node("range", "", <<Number(n, column + 1), Number(m, column + 3)>>,
                OnLine1(column), 5) : n \in 0..MaxCount, m \in 0..MaxCount }
    \cup { Node("range", "", <<Number(n, column + 1)>>, OnLine1(column), 4) :
             n \in 0..MaxCount }

\* the trees of the rules r = <primary><quantifier>
GivenTrees ==
    UNION { { LET length == 4 + primary.length + quantifier.length
              IN  Node("root", "",
                       <<Node("rule_def", "",
                              <<Identifier("r", 1),
                                Node("quantified", "", <<primary, quantifier>>,
                                     OnLine1(5), length - 4)>>,
                              OnLine1(1), length)>>,
                       OnLine1(1), length) :
              quantifier \in GivenQuantifiers(5 + primary.length) } :
            primary \in GivenPrimaries }

\* the service holds an entry with a given tree, nothing is published yet
InitTree ==
    /\ scheme = "untitled"
    /\ files = FileSystem({})
    /\ text = ""
    /\ version = 0
    /\ open = TRUE
    /\ documents \in { [uriScheme |-> "untitled", text |-> "", version |-> 0,
                        ast |-> tree, errors |-> <<>>] : tree \in GivenTrees }
    /\ diagnostics = <<>>
    /\ answer = NoAnswer
    /\ entries = <<>>

\* provideDiagnostics past updateDocument: the diagnostics of the entry are
\* computed and the collection's entry is set
publishDiagnostics ==
    /\ diagnostics' = DiagnosticsOf(documents, files)
    /\ UNCHANGED <<scheme, files, text, version, open, documents, answer,
                   entries>>

SpecTree == InitTree /\ [][publishDiagnostics]_vars

(***************************************************************************)
(* Properties                                                              *)
(***************************************************************************)
\* the nodes of a tree in pre-order, each with its depth below the root
RECURSIVE NodesAt(_, _)
RECURSIVE NodesIn(_, _, _)

NodesIn(children, i, depth) ==
    IF i > Len(children) THEN <<>>
    ELSE NodesAt(children[i], depth) \o NodesIn(children, i + 1, depth)

NodesAt(n, depth) ==
    <<[node |-> n, depth |-> depth]>> \o NodesIn(n.children, 1, depth + 1)

Tree(ast) == NodesAt(ast, 0)

\* the types of the children of a node, in order
ChildTypes(n) == [i \in 1..Len(n.children) |-> n.children[i].type]

\* the messages of a list of diagnostics, in order
Messages(ds) == [i \in 1..Len(ds) |-> ds[i].message]

\* the service's entry is the parse of the text in the editor
Parsed == open /\ documents.version = version /\ documents.text = text

\* C1: whatever the text (empty, garbage, unmatched nested brackets, nesting
\* deeper than the call stack), parse returns normally and its ast is a
\* non-null node of type root: the entry of an open document is always the
\* parse of its current text and holds a root
ParseAlwaysReturnsRoot ==
    open => /\ Parsed
            /\ ~IsNull(documents.ast)
            /\ documents.ast.type = "root"

\* C1 witness: a text whose unmatched parentheses nest deeper than the call
\* stack has been parsed: the result is the minimal root, and the exception's
\* message is the last of its errors
UnmatchedNestingParsed ==
    /\ Parsed
    /\ Len(documents.errors) > 0
    /\ documents.errors[Len(documents.errors)].message
           = "Maximum call stack size exceeded"
    /\ documents.ast.type = "root"
    /\ documents.ast.children = <<>>

\* well-formed rule definitions, each on its own line, and their rule names
WellFormedRules == {"a = b\n", "b = [[x]] c\n", "q = x{1,3} a{2}\n"}

RuleNameOf(line) == slice(line, 0, 1)

\* C2: a document of two well-formed rule lines parses into a root with one
\* rule_def per line, in order, each with its rule name as first child
EachRuleLineGivesARuleDef ==
    \A l1, l2 \in WellFormedRules :
        (Parsed /\ text = l1 \o l2) =>
            LET rules == documents.ast.children
            IN  /\ ChildTypes(documents.ast) = <<"rule_def", "rule_def">>
                /\ rules[1].children[1].type = "identifier"
                /\ rules[1].children[1].value = RuleNameOf(l1)
                /\ rules[2].children[1].type = "identifier"
                /\ rules[2].children[1].value = RuleNameOf(l2)

\* import lines, with and without flags
ImportLines ==
    {"import \"f\" as x\n", "import \"g\" as exact with word-prefix, line-end\n"}

\* C3: a version line followed by an import line parses without errors into
\* a root whose children are the version_stmt and the import_stmt
VersionThenImportParses ==
    \A l \in ImportLines :
        (Parsed /\ text = "version 1.0\n" \o l) =>
            /\ documents.errors = <<>>
            /\ ChildTypes(documents.ast) = <<"version_stmt", "import_stmt">>

\* C4: for every position inside the span of a leaf of the parsed tree, on
\* whatever line, findNodeAt returns a node that covers the position and no
\* node covering the position lies deeper in the tree
FindNodeAtFindsDeepest ==
    Parsed =>
        LET nodes == Tree(documents.ast)
        IN  \A i \in 1..Len(nodes) :
                Len(nodes[i].node.children) = 0 =>
                    \A column \in nodes[i].node.column ..
                                  (nodes[i].node.column + nodes[i].node.length - 1) :
                        LET line == nodes[i].node.line
                            found == findNodeAt(documents.ast, line, column)
                            covering == { j \in 1..Len(nodes) :
                                            Covers(nodes[j].node, line, column) }
                        IN  /\ ~IsNull(found)
                            /\ Covers(found, line, column)
                            /\ \E j \in covering :
                                   /\ nodes[j].node = found
                                   /\ \A k \in covering :
                                          nodes[k].depth <= nodes[j].depth

\* the diagnostics of the undefined-reference pass among a list of diagnostics
UndefinedPrefix == "Undefined rule reference: "

UndefinedReported(ds) ==
    SelectSeq(ds, LAMBDA d : slice(d.message, 0, Len(UndefinedPrefix)) = UndefinedPrefix)

\* the names a tree binds: rule names, import aliases
RuleNames(nodes) ==
    { nodes[i].node.children[1].value :
        i \in { j \in 1..Len(nodes) : nodes[j].node.type = "rule_def" } }

ImportAliases(nodes) ==
    { nodes[i].node.children[2].value :
        i \in { j \in 1..Len(nodes) : nodes[j].node.type = "import_stmt" } }

ResolverMethodNames == {"exact", "fuzzy", "phonetic", "semantic", "regex", "custom"}

\* the identifier nodes of a tree, in pre-order, whose value is no rule name,
\* no import alias and no built-in name
UnboundIdentifiers(nodes) ==
    SelectSeq(nodes, LAMBDA x :
        /\ x.node.type = "identifier"
        /\ x.node.value \notin RuleNames(nodes)
        /\ x.node.value \notin ImportAliases(nodes)
        /\ x.node.value \notin ResolverMethodNames)

\* C5: the undefined-reference diagnostics are, one for one, the identifier
\* nodes whose value is no rule name, no import alias and no built-in name:
\* message "Undefined rule reference: <name>", error severity, the range of
\* the identifier's own span (0-based in the editor)
UndefinedReferencesAreTheUnboundIdentifiers ==
    Parsed =>
        LET unbound == UnboundIdentifiers(Tree(documents.ast))
        IN  UndefinedReported(diagnostics) =
                [i \in 1..Len(unbound) |->
                    [range |-> [startLine |-> unbound[i].node.line - 1,
                                startCharacter |-> unbound[i].node.column - 1,
                                endLine |-> unbound[i].node.line - 1,
                                endCharacter |-> unbound[i].node.column - 1
                                                 + unbound[i].node.length],
                     message |-> UndefinedPrefix \o unbound[i].node.value,
                     severity |-> "Error", code |-> "", source |-> ""]]

\* C5 witness: a rule refers to an import alias and to an unbound name: the
\* unbound name alone is reported
OneOfTwoReferencesReported ==
    /\ Parsed
    /\ text = "import \"f\" as x\n" \o "b = [[x]] c\n"
    /\ Messages(UndefinedReported(diagnostics)) = <<"Undefined rule reference: c">>

\* rules whose whole expression is a group that lacks its closing parenthesis
UnterminatedGroupRules == {"r = (u", "r = ( a | b c"}

\* the rule_def nodes of a tree whose first child is the identifier name
RuleDefsNamed(ast, name) ==
    SelectSeq(Tree(ast), LAMBDA x :
        /\ x.node.type = "rule_def"
        /\ x.node.children[1].type = "identifier"
        /\ x.node.children[1].value = name)

\* C6 as claimed: a rule whose expression is an unterminated group gives exactly
\* one syntax error, "Expected closing parenthesis", and the root still holds
\* the rule_def with the rule's name
UnterminatedGroupKeepsRuleDef ==
    (Parsed /\ text \in UnterminatedGroupRules) =>
        /\ Messages(documents.errors) = <<"Expected closing parenthesis">>
        /\ Len(RuleDefsNamed(documents.ast, "r")) = 1

\* C6 as amended: a document that is one rule whose expression is an
\* unterminated group gives two syntax errors, "Expected closing parenthesis"
\* and then "Expected expression after "="", and a root without children
UnterminatedGroupDropsRule ==
    (Parsed /\ text \in UnterminatedGroupRules) =>
        /\ Messages(documents.errors) =
               <<"Expected closing parenthesis", "Expected expression after \"=\"">>
        /\ documents.ast.type = "root"
        /\ documents.ast.children = <<>>

\* C6 witness: the unterminated group rule has been parsed
UnterminatedGroupParsed ==
    /\ Parsed
    /\ text = "r = (u"
    /\ Len(documents.errors) = 2

\* C7: the rule n = (?P<m>a) parses without syntax error into a rule_def whose
\* expression is a named_capture with children identifier m and identifier a
NamedCaptureParses ==
    (Parsed /\ text = "n = (?P<m>a)\n") =>
        /\ documents.errors = <<>>
        /\ ChildTypes(documents.ast) = <<"rule_def">>
        /\ LET expression == documents.ast.children[1].children[2]
           IN  /\ expression.type = "named_capture"
               /\ ChildTypes(expression) = <<"identifier", "identifier">>
               /\ expression.children[1].value = "m"
               /\ expression.children[2].value = "a"

\* the nodes of a type in a tree
NodesOfType(ast, type) == SelectSeq(Tree(ast), LAMBDA x : x.node.type = type)

CountOf(ds, range, messages) ==
    Cardinality({ k \in 1..Len(ds) :
                    ds[k].range = range /\ ds[k].message \in messages })

RECURSIVE ContextAt(_, _, _, _)
ContextAt(line, position, i, context) ==
    IF i >= position \/ context = "comment" THEN context
    ELSE LET c == charAt(line, i)
         IN  IF c = "\\" THEN ContextAt(line, position, i + 2, context)
             ELSE IF context = "string"
             THEN ContextAt(line, position, i + 1,
                            IF c = "\"" THEN "code" ELSE "string")
             ELSE IF context = "class"
             THEN ContextAt(line, position, i + 1,
                            IF c = "]" THEN "code" ELSE "class")
             ELSE ContextAt(line, position, i + 1,
                            IF c = "#" THEN "comment"
                            ELSE IF c = "\"" THEN "string"
                            ELSE IF c = "[" THEN "class"
                            ELSE "code")

\* a + or * in quantifier position: in code, right after an alphanumeric
\* character, ], ), } or .
QuantifierPosition(line, column) ==
    /\ charAt(line, column) \in {"+", "*"}
    /\ ContextAt(line, column, 0, "code") = "code"
    /\ column > 0
    /\ charAt(line, column - 1) \in Letters \cup Digits \cup {"]", ")", "}", "."}

\* C10: the text scan gives exactly one "Open-ended quantifier" error for
\* every + or * in quantifier position outside strings, comments and
\* character classes, and none for any other character
QuantifierScanIsExact ==
    Parsed =>
        \A l \in 1..Len(split(text)) :
            \A column \in 0..(Len(split(text)[l]) - 1) :
                CountOf(diagnostics,
                        [startLine |-> l - 1, startCharacter |-> column,
                         endLine |-> l - 1, endCharacter |-> column + 1],
                        {PlusMessage, StarMessage})
                    = IF QuantifierPosition(split(text)[l], column) THEN 1 ELSE 0

\* the diagnostics of a list that carry a given code
WithCode(ds, code) == SelectSeq(ds, LAMBDA d : d.code = code)

\* the file an import line refers to
ImportedFile(line) == slice(line, 8, 9)

\* the document is file-backed and the look-ups of its file system answer
FileBacked == scheme = "file" /\ ~files.raises

\* C11: a file-backed document that is one well-formed import statement whose
\* file does not exist gets exactly one diagnostic with code
\* missing-import-file
MissingImportReportedOnce ==
    \A l \in ImportLines :
        (Parsed /\ FileBacked /\ text = l /\ ImportedFile(l) \notin files.existing) =>
            Len(WithCode(diagnostics, "missing-import-file")) = 1

\* the statements with an optional-tokens flag and the files each one lists
OptionalTokensLines ==
    { [line |-> "resolver default uses exact with optional-tokens(\"f\")\n",
       listed |-> {"f"}],
      [line |-> "resolver default uses exact with optional-tokens(\"f\", \"g\")\n",
       listed |-> {"f", "g"}] }

\* C12: every file an optional-tokens flag lists, alone or among several, that
\* does not exist in the document's directory gets a diagnostic
\* "Optional-tokens file not found: <path>" with code
\* missing-optional-tokens-file
MissingOptionalTokensFilesReported ==
    \A l \in OptionalTokensLines :
        (Parsed /\ FileBacked /\ text = l.line) =>
            \A path \in l.listed \ files.existing :
                \E i \in 1..Len(diagnostics) :
                    /\ diagnostics[i].message = "Optional-tokens file not found: " \o path
                    /\ diagnostics[i].code = "missing-optional-tokens-file"

\* the codes of the diagnostics about referenced files
FileCodes == {"missing-import-file", "missing-optional-tokens-file"}

\* the existence of files cannot be verified: the document has no location in
\* the file system, or the look-ups raise
Unverifiable == scheme # "file" \/ files.raises

\* C13: when the existence of files cannot be verified, no diagnostic about a
\* missing file is ever published, whatever the text refers to, and the
\* request returns: the entry of an open document is that of its current text
NoMissingFileWhenUnverifiable ==
    Unverifiable =>
        /\ \A i \in 1..Len(diagnostics) : diagnostics[i].code \notin FileCodes
        /\ open => Parsed

\* C13 witness: a document without a location in the file system that imports
\* a file and lists an optional-tokens file, neither of which exists, has been
\* validated
UnverifiableReferencesValidated ==
    /\ Parsed
    /\ scheme = "untitled"
    /\ files.existing = {}
    /\ text = "import \"f\" as x\n"
                \o "resolver default uses exact with optional-tokens(\"f\")\n"
    /\ \A i \in 1..Len(diagnostics) : diagnostics[i].code \notin FileCodes

\* the entry of the service for text t at version v, parsed afresh
FreshEntry(t, v) ==
    Then(parse(t), LAMBDA parseResult :
        [uriScheme |-> scheme, text |-> t, version |-> v,
         ast |-> parseResult.ast,
         errors |-> ErrorDiagnostics(parseResult.errors, 1)])

\* the answer to a request of the given kind at the position, made from the
\* tree of a parse of text t
FreshAnswer(kind, t, position) ==
    Then(parse(t), LAMBDA parseResult : AnswerOf(kind, parseResult.ast, position))

\* the diagnostics of text t at version v, made from a parse of t
FreshDiagnostics(t, v) ==
    Then(FreshEntry(t, v), LAMBDA entry : DiagnosticsOf(entry, files))

\* a step that left an answer of the given kind at the given position
Answered(kind, position) ==
    /\ answer'.kind = kind
    /\ answer'.line = position.line + 1
    /\ answer'.column = position.character + 1

\* C14: every hover, completion, definition and references request is
\* answered from the tree parsed from the text of the document at the time of
\* the request, and the diagnostics published on an open or change event are
\* those of the text after the event: no tree or error list of an earlier
\* revision is used
RequestsQueryCurrentText ==
    [][ /\ \A position \in Positions :
            /\ (Answered("hover", position) /\ provideHover(position)) =>
                    answer' = FreshAnswer("hover", text, position)
            /\ (Answered("completion", position)
                   /\ provideCompletionItems(position)) =>
                    answer' = FreshAnswer("completion", text, position)
            /\ (Answered("definition", position)
                   /\ provideDefinition(position)) =>
                    answer' = FreshAnswer("definition", text, position)
            /\ (Answered("references", position)
                   /\ provideReferences(position)) =>
                    answer' = FreshAnswer("references", text, position)
        /\ (onDidOpenTextDocument
              \/ \E change \in RequestLines : onDidChangeTextDocument(change)) =>
               diagnostics' = FreshDiagnostics(text', version') ]_vars

\* C14 witness: after a second edit, one that adds a reference to b, a
\* references request on b has been answered with both references
ReferencesAnsweredAfterEdit ==
    /\ Parsed
    /\ version = 2
    /\ text = "a = b\n" \o "b = [[x]] c\n"
    /\ answer.kind = "references"
    /\ answer.node.value = "b"
    /\ Len(answer.locations) = 2

CursorAt(t, p) == advanceN(t, NewParser, p)

\* the state after one iteration of the character class loop from state s
CharClassIteration(t, s) ==
    Then(parseCharClassItem(t, s), LAMBDA item :
        IF item.n # NoNode THEN item.s ELSE advance(t, s))

\* the states after one iteration of each list loop (import flags, resolver
\* flags, resolver arguments, optional tokens) that has consumed its comma
ListIterations(t, s) ==
    Then(skipWhitespace(t, consume(t, s, ",").s), LAMBDA next :
        { parseImportFlag(t, next).s, parseResolverFlag(t, next).s,
          parseResolverArg(t, next).s, parseString(t, next).s })

\* every loop of the parser, entered at state s of text t, either exits or
\* leaves its iteration at a greater offset
LoopsAdvance(t, s) ==
    /\ (peek(t, s) # EOF /\ peekWord(t, s) = "import") =>
           parseImportStatement(t, s).s.position > s.position
    /\ peek(t, s) # EOF =>
           Then(parseRuleDefinition(t, s), LAMBDA rule :
               rule.n # NoNode => rule.s.position > s.position)
    /\ peek(t, s) = "|" =>
           parseConcatenation(t, skipWhitespace(t, consume(t, s, "|").s), 1)
               .s.position > s.position
    /\ Then(parseQuantifiedExpression(t, skipWhitespace(t, s), 1), LAMBDA element :
           element.n # NoNode => element.s.position > s.position)
    /\ (peek(t, s) # EOF /\ peek(t, s) # "]") =>
           CharClassIteration(t, s).position > s.position
    /\ consume(t, s, ",").ok =>
           \A after \in ListIterations(t, s) : after.position > s.position
    /\ (peek(t, s) # EOF /\ peek(t, s) \in WhiteSpace) =>
           skipWhitespace(t, s).position > s.position

\* C16: parse returns on every text, and every loop of the parser (rule loop,
\* import loop, alternation, concatenation, character class, flag and
\* argument lists, white space), entered at whatever offset of the text,
\* exits or strictly advances the cursor in its iteration
ParseTerminates ==
    /\ open => Parsed
    /\ \A p \in 0..Len(text) :
           Then(CursorAt(text, p), LAMBDA s : LoopsAdvance(text, s))

\* C16 witness: a resolver with two flags, the second with two optional
\* tokens, and a rule of three elements, the first a character class of two
\* items, were parsed without an error
ListsAndRuleParsed ==
    /\ Parsed
    /\ text = "resolver default uses exact with ignore-case, optional-tokens(\"f\", \"g\")\n"
              \o "c = [+#] \"*\" b+\n"
    /\ Len(documents.errors) = 0
    /\ Len(documents.ast.children) = 2
    /\ Len(documents.ast.children[1].children[1].children[2].children) = 2
    /\ Len(documents.ast.children[2].children[2].children) = 3

\* the paths of a tree: the child indices from its root down to each node
RECURSIVE PathsOf(_)
PathsOf(n) ==
    {<<>>} \cup UNION { { <<i>> \o path : path \in PathsOf(n.children[i]) } :
                          i \in 1..Len(n.children) }

\* the node a path leads to
RECURSIVE NodeAtPath(_, _)
NodeAtPath(n, path) ==
    IF path = <<>> THEN n ELSE NodeAtPath(n.children[Head(path)], Tail(path))

\* pre-order of two paths: an ancestor comes before its descendants, and the
\* subtree of a child before the subtrees of the children after it
Before(p, q) ==
    \E k \in 0..Len(p) :
        /\ k <= Len(q)
        /\ SubSeq(p, 1, k) = SubSeq(q, 1, k)
        /\ \/ k = Len(p) /\ k < Len(q)
           \/ k < Len(p) /\ k < Len(q) /\ p[k + 1] < q[k + 1]

\* the paths of a tree that lead to nodes of a type
PathsOfType(ast, nodeType) ==
    { path \in PathsOf(ast) : NodeAtPath(ast, path).type = nodeType }

\* the node types to look for: those of the tree and one it does not hold
TypesToFind(ast) ==
    { NodeAtPath(ast, path).type : path \in PathsOf(ast) } \cup {"comment"}

\* C17: for the tree of the service's entry and every node type,
\* findNodesOfType returns the nodes of that type, each one once and in
\* pre-order: as many nodes as there are paths to nodes of the type, the node
\* of each path at the place of the path in pre-order; and the tree it was
\* given for the diagnostics is still the tree parsed from the text
FindNodesOfTypeInPreOrder ==
    documents.version >= 0 =>
        /\ \A nodeType \in TypesToFind(documents.ast) :
               Then(findNodesOfType(documents.ast, nodeType), LAMBDA found :
               Then(PathsOfType(documents.ast, nodeType), LAMBDA paths :
                   /\ Len(found) = Cardinality(paths)
                   /\ \A path \in paths :
                          found[Cardinality({ q \in paths : Before(q, path) }) + 1]
                              = NodeAtPath(documents.ast, path)))
        /\ documents = FreshEntry(documents.text, documents.version)

\* C17 witness: the tree of r = ( a | b c ) d holds a concatenation within a
\* concatenation and five identifiers at three depths, and the diagnostics
\* made from what findNodesOfType found name the five undefined references
NestedNodesFound ==
    /\ Parsed
    /\ text = "r = ( a | b c ) d\n"
    /\ Len(findNodesOfType(documents.ast, "concat")) = 2
    /\ Len(findNodesOfType(documents.ast, "identifier")) = 5
    /\ Len(diagnostics) = 4

\* the message of the RangeError of a call stack overflow
StackOverflowMessage == "Maximum call stack size exceeded"

\* the parse of the text in the editor raised in parseRoot and was caught
RaisedInParseRoot == Parsed /\ parseRoot(text, NewParser).s.thrown

\* C18 as claimed: when parseRoot raises, parse returns an error list of
\* exactly one error, which carries the raised message, and a root without
\* children
RaisedParseGivesOneError ==
    RaisedInParseRoot =>
        /\ Len(documents.errors) = 1
        /\ documents.errors[1].message = StackOverflowMessage
        /\ documents.ast.type = "root"
        /\ documents.ast.children = <<>>

\* C18 as amended: when parseRoot raises, parse returns the errors that were
\* recorded before the raise followed by exactly one error that carries the
\* raised message, and a root without children that spans the text
RaisedParseAppendsOneError ==
    RaisedInParseRoot =>
        /\ Len(documents.errors) >= 1
        /\ documents.errors[Len(documents.errors)].message = StackOverflowMessage
        /\ SubSeq(documents.errors, 1, Len(documents.errors) - 1)
               = ErrorDiagnostics(parseRoot(text, NewParser).s.errors, 1)
        /\ \A i \in 1..(Len(documents.errors) - 1) :
               documents.errors[i].message # StackOverflowMessage
        /\ documents.ast
               = Node("root", "", <<>>, [line |-> 1, column |-> 1], Len(text))

\* C18 witness: the version statement without its literal was reported, then
\* the groups of the rule overflowed the call stack
RaisedAfterAnError ==
    /\ RaisedInParseRoot
    /\ text = "version a=((("
    /\ Len(documents.errors) = 2
    /\ documents.errors[1].message = "Expected version literal after \"version\""

\* the span of child c lies within the span of node n
Contains(n, c) ==
    /\ c.line = n.line
    /\ n.column <= c.column
    /\ c.column + c.length <= n.column + n.length

\* C19: in the tree of the service's entry the span of every child lies
\* within the span of its parent: same line, and the child's columns within
\* the parent's
SpansContained ==
    documents.version >= 0 =>
        \A path \in PathsOf(documents.ast) \ {<<>>} :
            Contains(NodeAtPath(documents.ast, SubSeq(path, 1, Len(path) - 1)),
                     NodeAtPath(documents.ast, path))

\* the rules of Lines that end in a uses clause
RulesWithUses == {"d = fuzzy | e uses exact\n"}

\* C20: a rule name = expression uses method parses into a rule_def of the
\* name, the expression and a uses_clause, and no identifier of the tree is
\* the word uses
UsesEndsTheExpression ==
    (Parsed /\ text \in RulesWithUses) =>
        /\ Len(documents.ast.children) = 1
        /\ documents.ast.children[1].type = "rule_def"
        /\ Len(documents.ast.children[1].children) = 3
        /\ documents.ast.children[1].children[1].type = "identifier"
        /\ documents.ast.children[1].children[3].type = "uses_clause"
        /\ \A i \in 1..Len(findNodesOfType(documents.ast, "identifier")) :
               findNodesOfType(documents.ast, "identifier")[i].value # "uses"

\* rules of Lines that have a name and fail after it
MalformedRules == {"n = (?P<m>a)\n"}

\* C21: a rule that has a name but fails later is reported as an error, and
\* the well-formed rule on the line after it is still parsed into a rule_def
\* with its name
RulesAfterMalformedRuleParsed ==
    \A bad \in MalformedRules, good \in WellFormedRules :
        (Parsed /\ text = bad \o good) =>
            /\ documents.errors # <<>>
            /\ Len(RuleDefsNamed(documents.ast, RuleNameOf(good))) = 1

\* the identifier nodes of a tree that are the subject of a definition: the
\* name of a rule_def, the alias of an import_stmt, the name of a named_capture
DefinitionSubjects(ast) ==
    { Tree(ast)[i].node.children[1] : i \in { j \in 1..Len(Tree(ast)) :
          /\ Tree(ast)[j].node.type \in {"rule_def", "named_capture"}
          /\ Len(Tree(ast)[j].node.children) >= 1 } }
    \cup { Tree(ast)[i].node.children[2] : i \in { j \in 1..Len(Tree(ast)) :
          /\ Tree(ast)[j].node.type = "import_stmt"
          /\ Len(Tree(ast)[j].node.children) >= 2 } }

StartedAndFailed(t, s) ==
    \/ consume(t, s, "(").ok /\ IsNull(parseGroupExpression(t, s, 1).n)
    \/ consumeString(t, s, "[[").ok /\ IsNull(parseListMatch(t, s).n)

\* C23: from every offset of the text, when the group or the list match at the
\* cursor has consumed its start token and fails, the primary yields no node
PrimaryCommitsToAlternative ==
    Parsed =>
        \A p \in 0..Len(text) :
            StartedAndFailed(text, CursorAt(text, p)) =>
                IsNull(parsePrimaryExpression(text, CursorAt(text, p), 1).n)

\* every alt and every concat node of the tree n has two children or more
OperandsIn(n) ==
    LET tree == Tree(n)
    IN  \A i \in 1..Len(tree) :
            tree[i].node.type \in {"alt", "concat"} =>
                Len(tree[i].node.children) >= 2

\* C24: every alt and every concat node has at least two children, in the
\* tree of the document and in the expression parsed from any offset of its
\* text: a single operand is returned as itself, also after a "|" that has no
\* right-hand operand
SingleOperandsCollapse ==
    Parsed =>
        /\ OperandsIn(documents.ast)
        /\ \A p \in 0..Len(text) :
               Then(parseExpression(text, CursorAt(text, p), 0), LAMBDA e :
                   IsNull(e.n) \/ OperandsIn(e.n))

\* the expression b| is parsed to the operand b alone, with the "|" consumed
BarWithoutRightOperandParsed ==
    /\ Parsed
    /\ text = "a=(b|"
    /\ Then(parseExpression(text, CursorAt(text, 3), 0), LAMBDA e :
           e.n.type = "identifier" /\ e.n.value = "b" /\ e.s.position = 5)

\* characters that start no primary and no quantifier
StopCharacters == {"+", "*"}

\* rules of Lines whose expression is followed by such a character
StoppedRules == {"p = a+ b*\n", "s = \"#\" a*\n"}

\* the offset of the first of these characters in a line
StopOf(line) ==
    Least({ i \in 0..(Len(line) - 1) : charAt(line, i) \in StopCharacters },
          Len(line))

\* C25: a rule whose expression is followed by + or * parses without errors
\* into one rule_def, which ends at that character and is the rule_def of the
\* text before that character
ConcatenationEndsSilently ==
    \A line \in StoppedRules :
        (Parsed /\ text = line) =>
            /\ documents.errors = <<>>
            /\ ChildTypes(documents.ast) = <<"rule_def">>
            /\ documents.ast.children[1].length = StopOf(line)
            /\ documents.ast.children[1]
                   = parse(slice(line, 0, StopOf(line))).ast.children[1]

\* the rule p = a+ b* has been parsed into the rule_def of p = a
RuleStoppedAtPlusParsed ==
    /\ Parsed
    /\ text = "p = a+ b*\n"
    /\ ChildTypes(documents.ast.children[1]) = <<"identifier", "identifier">>
    /\ documents.ast.children[1].children[2].value = "a"

\* C26: while the document is open, after every open, change and save event,
\* the published diagnostics are the syntax and semantic diagnostics of a
\* parse of its current text, and after a close event none are published
PublishedDiagnosticsAreCurrent ==
    /\ open => diagnostics = FreshDiagnostics(text, version)
    /\ ~open => diagnostics = <<>>

\* the second revision of a document has more diagnostics than the first had
SecondRevisionPublished ==
    /\ open
    /\ version = 2
    /\ \E line \in FileLines :
           /\ Len(text) > Len(line)
           /\ slice(text, 0, Len(line)) = line
           /\ FreshDiagnostics(line, 1) # <<>>
           /\ Len(diagnostics) > Len(FreshDiagnostics(line, 1))

\* C27: a second call of parse() on the parser that parsed the document's text
\* returns the tree and the errors that the first call returned
SecondParseEqualsFirst ==
    Parsed =>
        Then(parseOn(text, NewParser), LAMBDA first :
            /\ first.result = parse(text)
            /\ parseOn(text, first.parser).result = first.result)

\* the map has no two pairs with one key
OneEntryPerUri ==
    \A i, j \in 1..Len(entries) : entries[i].key = entries[j].key => i = j

\* C28: the documents map has at most one entry per URI, and an update for one
\* URI makes getDocument of that URI the entry of the new text and version,
\* parsed afresh, and leaves getDocument of every other URI as it was
CacheHoldsLatestEntryPerUri ==
    /\ []OneEntryPerUri
    /\ [][\A uri \in Uris :
             MapGet(entries', toString(uri)) # getDocument(uri) =>
                 /\ \E change \in CacheLines :
                        /\ MapGet(entries', toString(uri)).text
                               = getDocument(uri).text \o change
                        /\ MapGet(entries', toString(uri))
                               = FreshEntry(getDocument(uri).text \o change,
                                            IF getDocument(uri) = NoDocument THEN 1
                                            ELSE getDocument(uri).version + 1)
                 /\ \A other \in Uris \ {uri} :
                        MapGet(entries', toString(other)) = getDocument(other)
                 /\ Len(entries') = Len(entries)
                        + (IF getDocument(uri) = NoDocument THEN 1 ELSE 0)]_vars

\* both documents have an entry and the entry of the one put first has been
\* replaced
EntryReplacedBesideAnother ==
    /\ Len(entries) = 2
    /\ entries[1].value.version = 2
    /\ entries[2].value.version = 1

\* words the parser calls consumeWord with, and prefixes of some of them
Words == { "version", "import", "as", "a", "with", "word", "word-prefix",
           "uses", "resolver", "default", "exact" }

\* the word w stands at offset p of text t and no word character follows it
WordStandsAt(t, p, w) ==
    /\ slice(t, p, p + Len(w)) = w
    /\ charAt(t, p + Len(w)) \notin WordChars

\* C29: at every offset of the text and for every word, consumeWord succeeds
\* exactly when the word stands there with no word character after it; on
\* success the position and the column have moved by the length of the word,
\* on failure position, line and column are as before
ConsumeWordTakesWholeWords ==
    Parsed =>
        \A p \in 0..Len(text) :
            Then(CursorAt(text, p), LAMBDA s :
                \A w \in Words :
                    Then(consumeWord(text, s, w), LAMBDA word :
                        /\ word.ok <=> WordStandsAt(text, p, w)
                        /\ word.ok => word.s = [s EXCEPT !.position = @ + Len(w),
                                                         !.column = @ + Len(w)]
                        /\ ~word.ok => word.s = s))

\* in an import with the flag word-prefix, consumeWord of word fails at the
\* flag and consumeWord of word-prefix succeeds
PrefixOfFlagRefused ==
    /\ Parsed
    /\ \E p \in 0..Len(text) :
           /\ ~consumeWord(text, CursorAt(text, p), "word").ok
           /\ slice(text, p, p + 4) = "word"
           /\ consumeWord(text, CursorAt(text, p), "word-prefix").ok

\* the 1-based line and column of every offset of text t, the entry of offset
\* p at index p + 1
LineColumns(t) ==
    <<>> \o [i \in 1..(Len(t) + 1) |->
               LET breaks == { j \in 0..(i - 2) : charAt(t, j) = "\n" }
               IN  [line |-> 1 + Cardinality(breaks),
                    column |-> i - Greatest({ j + 1 : j \in breaks }, 0)]]

\* the cursor of parser state s is inside the text and on the line and the
\* column of its offset
CursorInText(t, at, s) ==
    /\ s.position \in 0..Len(t)
    /\ s.line >= 1
    /\ s.column >= 1
    /\ getCurrentPosition(s) = at[s.position + 1]

\* the parser states after each scanner operation, each token read and the
\* resolver argument, from state s
StatesAfter(t, s) ==
    { advance(t, s), consume(t, s, peek(t, s)).s,
      consumeString(t, s, slice(t, s.position, s.position + 2)).s,
      consumeWord(t, s, peekWord(t, s)).s, skipWhitespace(t, s),
      parseVersionLiteral(t, s).s, parseIdentifier(t, s).s, parseNumber(t, s).s,
      parseEscape(t, s).s, parseString(t, s).s, parseCharClass(t, s).s,
      parseListMatch(t, s).s, parseResolverArg(t, s).s }

\* every node of the tree is at a 1-based line and column and has a length
\* that is not negative
NodesInText(n) ==
    LET tree == Tree(n)
    IN  \A i \in 1..Len(tree) :
            /\ tree[i].node.line >= 1
            /\ tree[i].node.column >= 1
            /\ tree[i].node.length >= 0

\* C30: from a cursor at any offset of the text, on the line and column of
\* that offset, every scanner operation, every token read and parseResolverArg
\* with its reset leave the cursor inside the text and on the line and column
\* of its offset; so does the whole parse, and every node of the tree and every
\* error is at a 1-based position, every node with a length of 0 or more
CursorFollowsText ==
    Parsed =>
        Then(LineColumns(text), LAMBDA at :
            /\ \A p \in 0..Len(text) :
                   LET s == [NewParser EXCEPT !.position = p, !.line = at[p + 1].line,
                                              !.column = at[p + 1].column]
                   IN  /\ \A after \in StatesAfter(text, s) :
                              CursorInText(text, at, after)
                       /\ Then(parseResolverArg(text, s), LAMBDA arg :
                              IsNull(arg.n) \/ NodesInText(arg.n))
            /\ CursorInText(text, at, parseOn(text, NewParser).parser)
            /\ NodesInText(documents.ast)
            /\ \A i \in 1..Len(documents.errors) :
                   /\ documents.errors[i].range.startLine >= 0
                   /\ documents.errors[i].range.startCharacter >= 0)

\* on the second line of a document, parseResolverArg read an identifier that
\* no = follows and went back to where it started
ResolverArgResetOnSecondLine ==
    /\ Parsed
    /\ \E p \in 0..Len(text) :
           Then(CursorAt(text, p), LAMBDA s :
               /\ s.line = 2
               /\ ~IsNull(parseIdentifier(text, s).n)
               /\ IsNull(parseResolverArg(text, s).n)
               /\ parseResolverArg(text, s).s = s)

====
